---- MODULE Spec2Model ----
(***************************************************************************)
(* Model of the stratified sampling and pattern-extraction core of the     *)
(* phonetics-annotation repository.                                        *)
(*                                                                         *)
(*   src/src/sampling/strategies.py   SamplingStrategy, StratifiedSampler  *)
(*   src/src/patterns/generator.py    PatternGenerator                     *)
(*                                                                         *)
(* Strings are sequences of one-character strings, so that lower(),        *)
(* substring tests, regular-expression cleaning and split() are computed   *)
(* character by character as the Python code computes them.                *)
(***************************************************************************)
EXTENDS Integers, Sequences, FiniteSets, TLC

(***************************************************************************)
(* Bounds of the model.                                                    *)
(***************************************************************************)
MaxItems == 3        \* longest item list handed to sample()
MaxTarget == 3       \* largest sample_size
MaxSeed == 1         \* seeds are 0..MaxSeed
MaxCalls == 2        \* successive sample() calls on one sampler object
MaxWordLen == 3      \* longest surface word of a literary item
MaxGenCalls == 2     \* generate_from_gb_data calls on one generator
MaxPatterns == 3     \* longest pattern list handed to deduplicate_patterns
MaxFilterCalls == 2  \* successive deduplicate_patterns applications
MaxLines == 2        \* most lines of a pattern file
MaxUttLen == 3       \* longest utterance drawn from UttChars
MaxClassify == 2     \* _is_phonetized_sample calls on one sampler
MaxCorpusLines == 3  \* most lines of a corpus file
RngMod == 8          \* number of states of the modelled random source

\* the absent seed (random_seed: Optional[int] = None); seeds are naturals
None == 0 - 1

(***************************************************************************)
(* Characters and strings.                                                 *)
(***************************************************************************)
LowerChar(c) ==
    CASE c = "A" -> "a"
      [] c = "H" -> "h"
      [] c = "S" -> "s"
      [] c = "T" -> "t"
      [] OTHER -> c

\* the string left as it is
Lower_Identity(s) == s

\* str.lower()
Lower(s) == [i \in 1..Len(s) |-> LowerChar(s[i])]

\* marker in text  (substring test)
Contains(text, marker) ==
    \E i \in 0..(Len(text) - Len(marker)) :
        \A j \in 1..Len(marker) : text[i + j] = marker[j]

(***************************************************************************)
(* Corpus items (src/src/data/loaders.py).                                 *)
(***************************************************************************)
GBDataItem(sample, words) ==
    [kind |-> "GB", sample |-> sample, utterance |-> <<>>, words |-> words]

GeminiDataItem(utterance) ==
    [kind |-> "Gemini", sample |-> <<>>, utterance |-> utterance, words |-> <<>>]

\* any object that is neither a GBDataItem nor a GeminiDataItem
OtherItem ==
    [kind |-> "Other", sample |-> <<>>, utterance |-> <<>>, words |-> <<>>]

\* the items the sampler is run on: a literary excerpt holding the marker
\* "said" (in capitals), a literary excerpt without any marker and a
\* dialogue utterance
ItemPool ==
    { GBDataItem(<<"S", "a", "i", "d">>, <<>>),
      GBDataItem(<<"S", "a", "d">>, <<>>),
      GeminiDataItem(<<"h", "i">>) }

dialogue_markers ==
    << <<"\"">>, <<"'">>, <<"s", "a", "i", "d">>, <<"a", "s", "k", "e", "d">>,
       <<"r", "e", "p", "l", "i", "e", "d">>,
       <<"a", "n", "s", "w", "e", "r", "e", "d">>,
       <<"e", "x", "c", "l", "a", "i", "m", "e", "d">> >>

\* StratifiedSampler._is_dialogue_sample
IsDialogueSample(item) ==
    IF item.kind = "GB"
    THEN LET sample_text == Lower(item.sample)
         IN \E m \in 1..Len(dialogue_markers) :
                Contains(sample_text, dialogue_markers[m])
    ELSE IF item.kind = "Gemini"
    THEN TRUE
    ELSE FALSE

(***************************************************************************)
(* The random source.  The module-level generator of Python's random is a  *)
(* deterministic generator with a hidden state; it is modelled by a        *)
(* full-period linear congruential generator over RngMod states.           *)
(***************************************************************************)
\* random.seed(a): the state is a function of the seed alone
SeedState(seed) == seed % RngMod

RngStep(s) == (5 * s + 3) % RngMod

\* random._randbelow(n): one step of the generator, a value in 0..n-1
RandBelow(n, s) == [value |-> RngStep(s) % n, rng |-> RngStep(s)]

RECURSIVE SampleLoop(_, _, _, _)
\* the selection loop of random.sample on a pool:
\*   for i in range(k): j = randbelow(n-i); result[i] = pool[j];
\*                      pool[j] = pool[n-i-1]
SampleLoop(pool, i, k, s) ==
    IF i = k
    THEN [out |-> <<>>, rng |-> s]
    ELSE LET n == Len(pool)
             r == RandBelow(n - i, s)
             j == r.value + 1
             rest == SampleLoop([pool EXCEPT ![j] = pool[n - i]], i + 1, k, r.rng)
         IN [out |-> <<pool[j]>> \o rest.out, rng |-> rest.rng]

\* random.sample drawing one element too few
RandomSample_OneShort(population, k, s) ==
    IF k < 0 \/ k > Len(population)
    THEN [raised |-> TRUE, out |-> <<>>, rng |-> s]
    ELSE LET r == SampleLoop(population, 0, k - 1, s)
         IN [raised |-> FALSE, out |-> r.out, rng |-> r.rng]

\* random.sample(population, k): ValueError unless 0 <= k <= len(population)
RandomSample(population, k, s) ==
    IF k < 0 \/ k > Len(population)
    THEN [raised |-> TRUE, out |-> <<>>, rng |-> s]
    ELSE LET r == SampleLoop(population, 0, k, s)
         IN [raised |-> FALSE, out |-> r.out, rng |-> r.rng]

RECURSIVE ShuffleLoop(_, _, _)
\* random.shuffle(x):
\*   for i in reversed(range(1, len(x))): j = randbelow(i+1); swap x[i], x[j]
ShuffleLoop(x, i, s) ==
    IF i < 2
    THEN [out |-> x, rng |-> s]
    ELSE LET r == RandBelow(i, s)
             j == r.value + 1
         IN ShuffleLoop([x EXCEPT ![i] = x[j], ![j] = x[i]], i - 1, r.rng)

\* every slot filled with one draw from the list, with replacement
RandomShuffle_WithReplacement(x, s) ==
    [out |-> [i \in 1..Len(x) |-> x[RandBelow(Len(x), s).value + 1]],
     rng |-> RngStep(s)]

\* random.shuffle(x)
RandomShuffle(x, s) == ShuffleLoop(x, Len(x), s)

(***************************************************************************)
(* StratifiedSampler.sample                                                *)
(***************************************************************************)
\* a ratio is a pair <<numerator, denominator>>; the ratios of the model
\* are dyadic, so the float product sample_size * ratio is exact
Ratios == { <<0, 1>>, <<1, 4>>, <<1, 2>>, <<3, 4>>, <<1, 1>> }

\* the product rounded up instead of truncated
IntProduct_Ceil(sample_size, ratio) ==
    (sample_size * ratio[1] + ratio[2] - 1) \div ratio[2]

\* int(sample_size * dialogue_ratio)
IntProduct(sample_size, ratio) == (sample_size * ratio[1]) \div ratio[2]

\* the positions of data, in order, whose item the classifier accepts / rejects
Positions(data) == [i \in 1..Len(data) |-> i]

DialogueSamples(data) ==
    SelectSeq(Positions(data), LAMBDA i : IsDialogueSample(data[i]))

NonDialogueSamples(data) ==
    SelectSeq(Positions(data), LAMBDA i : ~IsDialogueSample(data[i]))

\* the non-dialogue size taken as the whole sample size
InitialSizes_NoSubtract(sample_size, ratio) ==
    [dialogue |-> IntProduct(sample_size, ratio), non_dialogue |-> sample_size]

\* the sample sizes of the two classes as first calculated
InitialSizes(sample_size, ratio) ==
    [dialogue |-> IntProduct(sample_size, ratio),
     non_dialogue |-> sample_size - IntProduct(sample_size, ratio)]

\* the first check leaving the other class's size as it was
AdjustDialogue_ShrinkOnly(sizes, n_dialogue, sample_size) ==
    IF n_dialogue < sizes.dialogue
    THEN [dialogue |-> n_dialogue, non_dialogue |-> sizes.non_dialogue]
    ELSE sizes

\* "Adjust if we don't have enough samples": the first check
AdjustDialogue(sizes, n_dialogue, sample_size) ==
    IF n_dialogue < sizes.dialogue
    THEN [dialogue |-> n_dialogue, non_dialogue |-> sample_size - n_dialogue]
    ELSE sizes

\* the second check shrinking its own size without raising the other
AdjustNonDialogue_ShrinkOnly(sizes, n_non_dialogue, sample_size) ==
    IF n_non_dialogue < sizes.non_dialogue
    THEN [dialogue |-> sizes.dialogue, non_dialogue |-> n_non_dialogue]
    ELSE sizes

\* the second check
AdjustNonDialogue(sizes, n_non_dialogue, sample_size) ==
    IF n_non_dialogue < sizes.non_dialogue
    THEN [dialogue |-> sample_size - n_non_dialogue, non_dialogue |-> n_non_dialogue]
    ELSE sizes

\* the sample sizes after both checks
FinalSizes(n_dialogue, n_non_dialogue, sample_size, ratio) ==
    AdjustNonDialogue(
        AdjustDialogue(InitialSizes(sample_size, ratio), n_dialogue, sample_size),
        n_non_dialogue, sample_size)

\* the sample sizes of the two classes at the three places of sample() and
\* of sample_phonetized_dialogue(): as first calculated, after the first
\* check and after the second
QuotaSteps(n_positive, n_negative, sample_size, ratio) ==
    << InitialSizes(sample_size, ratio),
       AdjustDialogue(InitialSizes(sample_size, ratio), n_positive, sample_size),
       FinalSizes(n_positive, n_negative, sample_size, ratio) >>

\* the whole of sample(): the outcome, the result (positions of data), the
\* sample sizes used and the state the random source is left in
SampleCall(data, sample_size, ratio, s) ==
    LET dialogue_samples == DialogueSamples(data)
        non_dialogue_samples == NonDialogueSamples(data)
        sizes == FinalSizes(Len(dialogue_samples), Len(non_dialogue_samples),
                            sample_size, ratio)
        sd == IF sizes.dialogue > 0
              THEN RandomSample(dialogue_samples, sizes.dialogue, s)
              ELSE [raised |-> FALSE, out |-> <<>>, rng |-> s]
        sn == IF sizes.non_dialogue > 0
              THEN RandomSample(non_dialogue_samples, sizes.non_dialogue, sd.rng)
              ELSE [raised |-> FALSE, out |-> <<>>, rng |-> sd.rng]
        sh == RandomShuffle(sd.out \o sn.out, sn.rng)
    IN IF sd.raised
       THEN [outcome |-> "raised", result |-> <<>>, sizes |-> sizes, rng |-> sd.rng]
       ELSE IF sn.raised
       THEN [outcome |-> "raised", result |-> <<>>, sizes |-> sizes, rng |-> sn.rng]
       ELSE [outcome |-> "returned", result |-> sh.out, sizes |-> sizes, rng |-> sh.rng]

(***************************************************************************)
(* PatternGenerator (src/src/patterns/generator.py)                        *)
(***************************************************************************)
\* the characters surface words are made of: a capital letter, a
\* punctuation character and a blank
Chars == { "A", "!", " " }

Whitespace == { " ", "\t", "\n", "\r" }

AsciiAlnum ==
    { "a", "b", "c", "d", "e", "f", "g", "h", "i", "j", "k", "l", "m",
      "n", "o", "p", "q", "r", "s", "t", "u", "v", "w", "x", "y", "z",
      "A", "B", "C", "D", "E", "F", "G", "H", "I", "J", "K", "L", "M",
      "N", "O", "P", "Q", "R", "S", "T", "U", "V", "W", "X", "Y", "Z",
      "0", "1", "2", "3", "4", "5", "6", "7", "8", "9" }

\* pattern_to_keep.sub("", s) with pattern_to_keep = [^a-zA-Z0-9\s]
Clean(s) == SelectSeq(s, LAMBDA c : c \in AsciiAlnum \cup Whitespace)

RECURSIVE SplitFrom(_, _, _)
\* str.split() from position i on, cur being the token under construction
SplitFrom(s, i, cur) ==
    IF i > Len(s)
    THEN IF cur = <<>> THEN <<>> ELSE <<cur>>
    ELSE IF s[i] \in Whitespace
    THEN IF cur = <<>>
         THEN SplitFrom(s, i + 1, <<>>)
         ELSE <<cur>> \o SplitFrom(s, i + 1, <<>>)
    ELSE SplitFrom(s, i + 1, Append(cur, s[i]))

\* str.split(): the maximal runs of non-whitespace characters
Split(s) == SplitFrom(s, 1, <<>>)

\* the stop words of the English language class that can be written with
\* the characters of the model, and some that cannot
StopWords ==
    { <<"a">>, <<"i">>, <<"a", "t">>, <<"t", "h", "e">>, <<"a", "n", "d">> }

\* the configurations the generator is run under, the last one being the
\* default of PatternSettings
PatternSettings ==
    [min_pattern_length : {1}, max_pattern_length : {2}, enable_stopword_filter : BOOLEAN]
    \cup [min_pattern_length : {2}, max_pattern_length : {3}, enable_stopword_filter : BOOLEAN]
    \cup [min_pattern_length : {3}, max_pattern_length : {50}, enable_stopword_filter : BOOLEAN]

\* the length test excluding min_pattern_length itself
IsValidPattern_Exclusive(pattern, seen, st, stops) ==
    IF pattern = <<>> THEN FALSE
    ELSE IF pattern \in seen THEN FALSE
    ELSE IF Len(pattern) <= st.min_pattern_length THEN FALSE
    ELSE IF Len(pattern) > st.max_pattern_length THEN FALSE
    ELSE IF st.enable_stopword_filter /\ pattern \in stops THEN FALSE
    ELSE TRUE

\* the length test excluding max_pattern_length itself
IsValidPattern_ExclusiveMax(pattern, seen, st, stops) ==
    IF pattern = <<>> THEN FALSE
    ELSE IF pattern \in seen THEN FALSE
    ELSE IF Len(pattern) < st.min_pattern_length THEN FALSE
    ELSE IF Len(pattern) >= st.max_pattern_length THEN FALSE
    ELSE IF st.enable_stopword_filter /\ pattern \in stops THEN FALSE
    ELSE TRUE

\* the stop word test left out
IsValidPattern_NoStopwords(pattern, seen, st, stops) ==
    IF pattern = <<>> THEN FALSE
    ELSE IF pattern \in seen THEN FALSE
    ELSE IF Len(pattern) < st.min_pattern_length THEN FALSE
    ELSE IF Len(pattern) > st.max_pattern_length THEN FALSE
    ELSE TRUE

\* PatternGenerator._is_valid_pattern
IsValidPattern(pattern, seen, st, stops) ==
    IF pattern = <<>> THEN FALSE
    ELSE IF pattern \in seen THEN FALSE
    ELSE IF Len(pattern) < st.min_pattern_length THEN FALSE
    ELSE IF Len(pattern) > st.max_pattern_length THEN FALSE
    ELSE IF st.enable_stopword_filter /\ pattern \in stops THEN FALSE
    ELSE TRUE

\* Pattern(label="PHONETIC", pattern=[{"lower": token} for token in variant.split()])
Pattern(variant) ==
    [label |-> "PHONETIC",
     pattern |-> [i \in 1..Len(Split(variant)) |-> [lower |-> Split(variant)[i]]]]

\* the orders in which the set {word.lower(), cleaned word} can be iterated:
\* the iteration order of a set of strings is not fixed
VariantOrders(word) ==
    LET low == Lower(word)
        cleaned == Clean(Lower(word))
    IN IF low = cleaned THEN { <<low>> } ELSE { <<low, cleaned>>, <<cleaned, low>> }

RECURSIVE ExtractVariants(_, _, _, _, _)
\* "for variant in variants": the patterns appended and the seen set after
ExtractVariants(variants, i, seen, st, stops) ==
    IF i > Len(variants)
    THEN [patterns |-> <<>>, seen |-> seen]
    ELSE IF IsValidPattern(variants[i], seen, st, stops)
    THEN LET rest == ExtractVariants(variants, i + 1, seen \cup {variants[i]}, st, stops)
         IN [patterns |-> <<Pattern(variants[i])>> \o rest.patterns, seen |-> rest.seen]
    ELSE ExtractVariants(variants, i + 1, seen, st, stops)

RECURSIVE ExtractWords(_, _, _, _, _)
\* "for word in words" of _extract_patterns_from_gb_item: every outcome the
\* iteration orders of the variant sets allow
ExtractWords(words, i, seen, st, stops) ==
    IF i > Len(words)
    THEN { [patterns |-> <<>>, seen |-> seen] }
    ELSE UNION { LET here == ExtractVariants(order, 1, seen, st, stops)
                 IN { [patterns |-> here.patterns \o rest.patterns, seen |-> rest.seen] :
                        rest \in ExtractWords(words, i + 1, here.seen, st, stops) }
                 : order \in VariantOrders(words[i]) }

\* PatternGenerator._extract_patterns_from_gb_item
ExtractPatternsFromGBItem(item, seen, st, stops) ==
    ExtractWords(item.words, 1, seen, st, stops)

RECURSIVE GenerateItems(_, _, _, _, _)
\* "for item in loader.load()" of generate_from_gb_data
GenerateItems(items, i, seen, st, stops) ==
    IF i > Len(items)
    THEN { [patterns |-> <<>>, seen |-> seen] }
    ELSE IF items[i].kind = "GB"
    THEN UNION { { [patterns |-> here.patterns \o rest.patterns, seen |-> rest.seen] :
                     rest \in GenerateItems(items, i + 1, here.seen, st, stops) }
                 : here \in ExtractPatternsFromGBItem(items[i], seen, st, stops) }
    ELSE GenerateItems(items, i + 1, seen, st, stops)

\* surface words: the non-empty strings over Chars of length at most MaxWordLen
Words == UNION { [1..n -> Chars] : n \in 1..MaxWordLen }

\* the literary item of the unit test: the words "heben" and "test"
ScenarioCorpora ==
    { <<GBDataItem(<<"S", "a", "d">>,
                   << <<"h", "e", "b", "e", "n">>, <<"t", "e", "s", "t">> >>)>> }

\* the literary corpora: one item with one or two (distinct) words, or two
\* items with one word each
Corpora ==
    { <<GBDataItem(<<"S", "a", "d">>, <<w>>)>> : w \in Words }
    \cup { <<GBDataItem(<<"S", "a", "d">>, <<w[1], w[2]>>)>> :
             w \in { p \in Words \X Words : p[1] # p[2] } }
    \cup { <<GBDataItem(<<"S", "a", "d">>, <<w[1]>>), GBDataItem(<<"S", "a", "d">>, <<w[2]>>)>> :
             w \in Words \X Words }
    \cup ScenarioCorpora

(***************************************************************************)
(* PatternFilter (src/src/patterns/filters.py)                             *)
(***************************************************************************)
\* token.get("lower", ""): a token is a dictionary that may lack the key
TokenLower(token) == IF "lower" \in DOMAIN token THEN token.lower ELSE <<>>

\* the deduplication key without the label
PatternKey_NoLabel(pattern) ==
    << [i \in 1..Len(pattern.pattern) |-> TokenLower(pattern.pattern[i])] >>

\* pattern_key = (pattern.label, tuple(token.get("lower", "") for token in pattern.pattern))
PatternKey(pattern) ==
    << pattern.label,
       [i \in 1..Len(pattern.pattern) |-> TokenLower(pattern.pattern[i])] >>

RECURSIVE DeduplicateLoop(_, _, _)
\* "for pattern in patterns" of deduplicate_patterns
DeduplicateLoop(pats, i, seen) ==
    IF i > Len(pats)
    THEN <<>>
    ELSE IF PatternKey(pats[i]) \notin seen
    THEN <<pats[i]>> \o DeduplicateLoop(pats, i + 1, seen \cup {PatternKey(pats[i])})
    ELSE DeduplicateLoop(pats, i + 1, seen)

\* PatternFilter.deduplicate_patterns
DeduplicatePatterns(pats) == DeduplicateLoop(pats, 1, {})

\* the patterns the filter is run on: one token, the same token twice, another
\* label, a token without the key "lower", a token whose text is empty and a
\* pattern without tokens
PatternPool ==
    { [label |-> "PHONETIC", pattern |-> << [lower |-> <<"a">>] >>],
      [label |-> "PHONETIC", pattern |-> << [lower |-> <<"a">>], [lower |-> <<"a">>] >>],
      [label |-> "OTHER", pattern |-> << [lower |-> <<"a">>] >>],
      [label |-> "PHONETIC", pattern |-> << [orth |-> <<"a">>] >>],
      [label |-> "PHONETIC", pattern |-> << [lower |-> <<>>] >>],
      [label |-> "PHONETIC", pattern |-> <<>>] }

(***************************************************************************)
(* StratifiedSampler: the pattern set and the phonetic classifier          *)
(* (src/src/sampling/strategies.py)                                        *)
(***************************************************************************)
\* a line of the pattern file by what json.loads makes of it: kind is
\* "blank" (nothing but whitespace), "invalid" (json.loads raises) or
\* "object"; an object has the key "pattern" or not, and its token list
PatternLine(kind, has_pattern, pattern) ==
    [kind |-> kind, has_pattern |-> has_pattern, pattern |-> pattern]

\* the line generate_from_gb_data's output holds for a one-word variant
WordLine(text) == PatternLine("object", TRUE, << [lower |-> text] >>)

LinePool ==
    { PatternLine("blank", FALSE, <<>>),
      PatternLine("invalid", FALSE, <<>>),
      PatternLine("object", FALSE, <<>>),
      PatternLine("object", TRUE, <<>>),
      PatternLine("object", TRUE, << [orth |-> <<"a">>] >>),
      WordLine(<<"a">>),
      WordLine(<<"A">>),
      PatternLine("object", TRUE, << [lower |-> <<"a", "-">>], [lower |-> <<"a">>] >>) }

\* a pattern file: present with its lines, missing, or present and unreadable
PatternFile(status, lines) == [status |-> status, lines |-> lines]

PatternFiles ==
    { PatternFile("ok", lines) : lines \in
          UNION { [1..n -> LinePool] : n \in 0..MaxLines } }
    \cup { PatternFile("missing", <<>>), PatternFile("unreadable", <<>>) }

RECURSIVE LoadPatternsLoop(_, _, _, _)
\* "for line in f" of _load_patterns, inside the try: json.loads raising on
\* line i leaves the loop with the patterns added so far
LoadPatternsLoop(lines, i, pats, excs) ==
    IF i > Len(lines)
    THEN [patterns |-> pats, error |-> FALSE]
    ELSE IF lines[i].kind = "blank"
    THEN LoadPatternsLoop(lines, i + 1, pats, excs)
    ELSE IF lines[i].kind = "invalid"
    THEN [patterns |-> pats, error |-> TRUE]
    ELSE IF lines[i].has_pattern /\ lines[i].pattern # <<>>
    THEN LET pattern_text == TokenLower(lines[i].pattern[1])
         IN IF pattern_text # <<>> /\ pattern_text \notin excs
            THEN LoadPatternsLoop(lines, i + 1, pats \cup {pattern_text}, excs)
            ELSE LoadPatternsLoop(lines, i + 1, pats, excs)
    ELSE LoadPatternsLoop(lines, i + 1, pats, excs)

RECURSIVE StripLeft(_)
\* the string without its leading whitespace
StripLeft(s) ==
    IF s # <<>> /\ s[1] \in Whitespace THEN StripLeft(Tail(s)) ELSE s

RECURSIVE StripRight(_)
\* the string without its trailing whitespace
StripRight(s) ==
    IF s # <<>> /\ s[Len(s)] \in Whitespace
    THEN StripRight(SubSeq(s, 1, Len(s) - 1))
    ELSE s

\* str.strip()
Strip(s) == StripRight(StripLeft(s))

\* an exceptions file: not configured ("none"), present with its lines,
\* missing, or present and unreadable
ExceptionsFile(status, lines) == [status |-> status, lines |-> lines]

\* the exception files the sampler is constructed with: a word, a word in
\* capitals, comments, blanks and padding, a word with a hyphen
ExceptionsFiles ==
    { ExceptionsFile("none", <<>>),
      ExceptionsFile("missing", <<>>),
      ExceptionsFile("ok", <<>>),
      ExceptionsFile("ok", << <<"a">> >>),
      ExceptionsFile("ok", << <<"A">> >>),
      ExceptionsFile("ok", << <<"#", "a">>, <<>>, <<" ">>, <<" ", "a", "-", " ">> >>),
      ExceptionsFile("ok", << <<"#">>, <<" ", "A", " ">>, <<"a", "-">> >>) }

RECURSIVE LoadExceptionsLoop(_, _, _)
\* "for line in f" of _load_exceptions
LoadExceptionsLoop(lines, i, excs) ==
    IF i > Len(lines)
    THEN excs
    ELSE IF Strip(lines[i]) # <<>> /\ Strip(lines[i])[1] # "#"
    THEN LoadExceptionsLoop(lines, i + 1, excs \cup {Lower(Strip(lines[i]))})
    ELSE LoadExceptionsLoop(lines, i + 1, excs)

\* self.exceptions as __init__ sets it: set() without a file, and
\* _load_exceptions otherwise, which returns the empty set when open() raises
LoadExceptions(file) ==
    IF file.status # "ok" THEN {} ELSE LoadExceptionsLoop(file.lines, 1, {})

\* the pattern set built without looking at the exceptions
LoadPatterns_ExceptionsIgnored(file, excs) ==
    IF file.status # "ok"
    THEN [outcome |-> "returned", patterns |-> {}, error |-> TRUE]
    ELSE LET l == LoadPatternsLoop(file.lines, 1, {}, {})
         IN [outcome |-> "returned", patterns |-> l.patterns, error |-> l.error]

\* StratifiedSampler._load_patterns: open() raising is caught like any other
\* exception, and the set built so far is returned
LoadPatterns(file, excs) ==
    IF file.status # "ok"
    THEN [outcome |-> "returned", patterns |-> {}, error |-> TRUE]
    ELSE LET l == LoadPatternsLoop(file.lines, 1, {}, excs)
         IN [outcome |-> "returned", patterns |-> l.patterns, error |-> l.error]

\* the cleaning that keeps letters and digits only
CleanWord_AlnumOnly(word) == SelectSeq(word, LAMBDA c : c \in AsciiAlnum)

\* clean_word = ''.join(c for c in word if c.isalnum() or c in "'-")
CleanWord(word) == SelectSeq(word, LAMBDA c : c \in AsciiAlnum \/ c \in {"'", "-"})

RECURSIVE MatchLoop(_, _, _)
\* "for word in words" of _is_phonetized_sample: the first cleaned word that
\* is a pattern, or <<>> when the loop runs out
MatchLoop(words, i, pats) ==
    IF i > Len(words)
    THEN [found |-> FALSE, clean_word |-> <<>>]
    ELSE IF CleanWord(words[i]) \in pats
    THEN [found |-> TRUE, clean_word |-> CleanWord(words[i])]
    ELSE MatchLoop(words, i + 1, pats)

\* self.pattern_usage[clean_word] += 1
CounterAdd(counter, key) ==
    IF key \in DOMAIN counter
    THEN [counter EXCEPT ![key] = @ + 1]
    ELSE [k \in DOMAIN counter \cup {key} |-> IF k = key THEN 1 ELSE counter[k]]

\* a classifier that answers False once a pattern has been counted
IsPhonetizedSample_UsageDependent(it, pats, usage) ==
    IF it.kind = "GB"
    THEN [value |-> Len(it.words) > 0, pattern_usage |-> usage]
    ELSE IF it.kind = "Gemini"
    THEN LET m == MatchLoop(Split(Lower(it.utterance)), 1, pats)
         IN IF m.found /\ m.clean_word \notin DOMAIN usage
            THEN [value |-> TRUE, pattern_usage |-> CounterAdd(usage, m.clean_word)]
            ELSE [value |-> FALSE, pattern_usage |-> usage]
    ELSE [value |-> FALSE, pattern_usage |-> usage]

\* StratifiedSampler._is_phonetized_sample: the value returned and the
\* counter it leaves
IsPhonetizedSample(it, pats, usage) ==
    IF it.kind = "GB"
    THEN [value |-> Len(it.words) > 0, pattern_usage |-> usage]
    ELSE IF it.kind = "Gemini"
    THEN LET m == MatchLoop(Split(Lower(it.utterance)), 1, pats)
         IN IF m.found
            THEN [value |-> TRUE, pattern_usage |-> CounterAdd(usage, m.clean_word)]
            ELSE [value |-> FALSE, pattern_usage |-> usage]
    ELSE [value |-> FALSE, pattern_usage |-> usage]

\* the characters of the utterances: a capital, a kept and a stripped
\* punctuation mark and a blank
UttChars == { "A", "-", "!", " " }

Utterances == UNION { [1..n -> UttChars] : n \in 0..MaxUttLen }

\* "he said heben to me" and "he said hello to me"
HebenUtterance ==
    <<"h", "e", " ", "s", "a", "i", "d", " ", "h", "e", "b", "e", "n", " ",
      "t", "o", " ", "m", "e">>

HelloUtterance ==
    <<"h", "e", " ", "s", "a", "i", "d", " ", "h", "e", "l", "l", "o", " ",
      "t", "o", " ", "m", "e">>

ScenarioItems ==
    { GeminiDataItem(HebenUtterance), GeminiDataItem(HelloUtterance),
      GeminiDataItem(<<"A", "-", " ", "a", "!">>) }

ClassifyItems ==
    { GeminiDataItem(u) : u \in Utterances }
    \cup ScenarioItems
    \cup { GBDataItem(<<"S", "a", "d">>, <<>>),
           GBDataItem(<<"S", "a", "d">>, << <<"a">> >>), OtherItem }

\* the items a second and later call of the classifier may be given
FollowUpItems ==
    { GeminiDataItem(<<"A", "-", " ", "a", "!">>), GeminiDataItem(<<"!">>) }

\* the pattern files the classifier is exercised with
ClassifierFiles ==
    { PatternFile("ok", <<WordLine(<<"a">>)>>),
      PatternFile("ok", <<WordLine(<<"a", "-">>)>>),
      PatternFile("ok", <<WordLine(<<"a">>), WordLine(<<"a", "-">>)>>),
      PatternFile("ok", <<WordLine(<<"h", "e", "b", "e", "n">>)>>) }

\* every pattern file with a few items, and a few pattern files with every item
ClassifierInputs ==
    [file : PatternFiles, exceptions : ExceptionsFiles,
     item : { GeminiDataItem(<<"A", "-", " ", "a", "!">>) }]
    \cup [file : ClassifierFiles, exceptions : { ExceptionsFile("none", <<>>) },
          item : ClassifyItems]

(***************************************************************************)
(* Corpus loaders (src/src/data/loaders.py)                                *)
(***************************************************************************)
\* a line of a corpus file by what the JSON parser makes of it: "invalid"
\* (the parser raises) or "object" with the keys it holds
CorpusLine(json, keys) == [json |-> json, keys |-> keys, utterance |-> <<"h", "i">>]

\* a dialogue record whose key "utterance" holds the string u
UtteranceLine(u) == [json |-> "object", keys |-> {"utterance"}, utterance |-> u]

\* the fields of GBDataItem / GeminiDataItem that have no default
GBRequired == { "sample_id", "g_id", "author", "title", "sample" }

GeminiRequired == { "utterance" }

CorpusLinePool ==
    { CorpusLine("invalid", {}),
      CorpusLine("object", GBRequired \cup {"words"}),
      CorpusLine("object", GBRequired),
      CorpusLine("object", GeminiRequired),
      UtteranceLine(<<>>),
      UtteranceLine(<<" ">>),
      CorpusLine("object", {}),
      CorpusLine("object", {"sample_id", "words"}) }

\* a corpus file: present with its lines, missing, or present and unreadable
CorpusFile(status, lines) == [status |-> status, lines |-> lines]

CorpusFiles ==
    { CorpusFile("ok", lines) : lines \in
          UNION { [1..n -> CorpusLinePool] : n \in 0..MaxCorpusLines } }
    \cup { CorpusFile("missing", <<>>), CorpusFile("unreadable", <<>>) }

\* the loader class create_loader's look at the first line settles on; any
\* exception on the way leads to the default
LoaderClassFor(file) ==
    IF file.status # "ok" \/ file.lines = <<>>
    THEN "GB"
    ELSE IF file.lines[1].json = "invalid"
    THEN "GB"
    ELSE IF {"sample_id", "words"} \subseteq file.lines[1].keys
    THEN "GB"
    ELSE IF "utterance" \in file.lines[1].keys
    THEN "Gemini"
    ELSE "GB"

\* create_loader, DataLoader.__init__ included: the class, or "raised" for a
\* file that does not exist
CreateLoader(file) ==
    IF file.status = "missing"
    THEN [outcome |-> "raised", class |-> "none"]
    ELSE [outcome |-> "returned", class |-> LoaderClassFor(file)]

\* GBDataItem(**line) / GeminiDataItem(**line) constructs
Validates(class, line) ==
    IF class = "GB" THEN GBRequired \subseteq line.keys
    ELSE GeminiRequired \subseteq line.keys

RECURSIVE LoadLoop(_, _, _, _)
\* "for line_num, line in enumerate(reader, 1)" of load: the reader raises
\* on a line it cannot parse, outside the inner try; yielded holds the line
\* numbers of the items handed to the consumer
LoadLoop(class, lines, i, yielded_so_far) ==
    IF i > Len(lines)
    THEN [outcome |-> "returned", yielded |-> yielded_so_far]
    ELSE IF lines[i].json = "invalid"
    THEN [outcome |-> "raised", yielded |-> yielded_so_far]
    ELSE IF Validates(class, lines[i])
    THEN LoadLoop(class, lines, i + 1, Append(yielded_so_far, i))
    ELSE LoadLoop(class, lines, i + 1, yielded_so_far)

\* GBDataLoader.load / GeminiDataLoader.load run to the end
Load(class, file) ==
    IF file.status # "ok"
    THEN [outcome |-> "raised", yielded |-> <<>>]
    ELSE LoadLoop(class, file.lines, 1, <<>>)

(***************************************************************************)
(* The workflow scripts (src/scripts/run_full_workflow.py,                 *)
(* src/scripts/run_prodigy_localhost.py) and ProdigyRunner                 *)
(* (src/src/prodigy/runner.py)                                             *)
(***************************************************************************)
\* what running "prodigy --version" comes to: exit status 0, another exit
\* status, no such executable, or no answer within the timeout
ToolStates == { "ok", "nonzero", "missing", "timeout" }

\* ProdigyRunner.check_prodigy_installation: True on exit status 0, False on
\* any other status and on every exception
CheckProdigyInstallation(tool_state) == tool_state = "ok"

\* the script going on to start the tool whatever the check returned
AfterCheck_Ignored(passed) == "run"

\* "if not runner.check_prodigy_installation(): ... return 1"
AfterCheck(passed) == IF passed THEN "run" ELSE "done"

\* the command-line situations of the two scripts
WorkflowArgs ==
    [script : {"full", "localhost"},
     earlier_steps : {"ok", "failed"},
     run_prodigy : BOOLEAN,
     input_exists : BOOLEAN,
     patterns_missing : BOOLEAN,
     annotation_type : {"spans", "ner", "other"},
     popen_raises : BOOLEAN]

(***************************************************************************)
(* State.                                                                  *)
(***************************************************************************)
VARIABLES
    rng,                        \* state of the module-level random source
    random_seed,                \* SamplingStrategy.random_seed
    data, sample_size, dialogue_ratio,      \* the arguments of sample()
    calls,                      \* sample() calls made on this sampler object
    outcome,                    \* "none", "returned" or "raised"
    result,                     \* what the last call returned
    dialogue_sample_size, non_dialogue_sample_size,  \* sizes the last call used
    prev_outcome, prev_result,  \* the call before the last, same object
    method,                     \* the sampling method the last call was of
    quota_steps,                \* its sample sizes: as first calculated, after
                                \* the first check, after the second check
    settings,                   \* PatternGenerator.settings.patterns
    stopwords,                  \* PatternGenerator.stopwords
    seen_patterns,              \* PatternGenerator.seen_patterns
    corpus,                     \* the items of the data file
    gen_calls,                  \* generate_from_gb_data calls made
    patterns,                   \* what the last generate_from_gb_data returned
    prev_patterns,              \* what the call before it returned, same generator
    filter_input,               \* the list deduplicate_patterns is first applied to
    filter_calls,               \* applications of deduplicate_patterns so far
    filter_output,              \* what the last application returned
    filter_prev,                \* what the application before it returned
    patterns_file,              \* the file behind StratifiedSampler's patterns_file
    exceptions_file,            \* the file behind StratifiedSampler's exceptions_file
    exceptions,                 \* StratifiedSampler.exceptions
    phonetic_patterns,          \* StratifiedSampler.phonetic_patterns
    load_outcome,               \* "none", "returned" or "raised" for _load_patterns
    load_error,                 \* whether _load_patterns logged an error
    pattern_usage,              \* StratifiedSampler.pattern_usage
    sample_item,                \* the item handed to _is_phonetized_sample
    is_phonetized,              \* what the last _is_phonetized_sample returned
    classify_calls,             \* _is_phonetized_sample calls made
    corpus_file,                \* the file behind DataLoader.file_path
    loader_class,               \* "none", or the class create_loader returned
    corpus_outcome,             \* "none", "returned" or "raised" for create_loader / load
    yielded,                    \* line numbers of the items load has yielded
    gb_data, gemini_data,       \* the loaded literary / dialogue items of mixed mode
    mixed_size, mixed_ratio,    \* sample_size and dialogue_ratio of balance_mixed_data
    mixed_outcome,              \* "none", "returned" or "raised" for balance_mixed_data
    sampled_gb, sampled_gemini, \* what balance_mixed_data returned
    gb_sizes, gemini_sizes,     \* the sample sizes its two sample() calls used
    gb_stratum,                 \* non_dialogue_samples of the literary call
    gemini_stratum,             \* dialogue_samples of the dialogue call
    save_outcome,               \* "none", "returned" or "raised" for save_balanced_data
    written,                    \* the records in the output file
    stats_data,                 \* the items get_balance_statistics is called on
    stats_outcome,              \* "none" or "returned"
    stats,                      \* the dictionary it returned
    wf_args,                    \* the script run and its command-line situation
    tool,                       \* what the annotation tool's health check comes to
    wf_pc,                      \* where main() of the script is
    health,                     \* "unchecked", "passed" or "failed"
    spawned,                    \* annotation processes started
    exit_code                   \* None while main() runs, then its return value

vars == <<rng, random_seed, data, sample_size, dialogue_ratio, calls, outcome,
          result, dialogue_sample_size, non_dialogue_sample_size,
          prev_outcome, prev_result, method, quota_steps, settings, stopwords, seen_patterns,
          corpus, gen_calls, patterns, prev_patterns,
          filter_input, filter_calls, filter_output, filter_prev,
          patterns_file, exceptions_file, exceptions, phonetic_patterns, load_outcome,
          load_error, pattern_usage, sample_item, is_phonetized, classify_calls,
          corpus_file, loader_class, corpus_outcome, yielded,
          gb_data, gemini_data, mixed_size, mixed_ratio, mixed_outcome,
          sampled_gb, sampled_gemini, gb_sizes, gemini_sizes, gb_stratum,
          gemini_stratum, save_outcome, written, stats_data, stats_outcome, stats,
          wf_args, tool, wf_pc, health, spawned, exit_code>>

sampler_vars == <<rng, random_seed, data, sample_size, dialogue_ratio, calls,
                  outcome, result, dialogue_sample_size,
                  non_dialogue_sample_size, prev_outcome, prev_result, method,
                  quota_steps>>

generator_vars == <<settings, stopwords, seen_patterns, corpus, gen_calls, patterns,
                    prev_patterns>>

filter_vars == <<filter_input, filter_calls, filter_output, filter_prev>>

classifier_vars == <<patterns_file, exceptions_file, exceptions, phonetic_patterns,
                     load_outcome,
                     load_error, pattern_usage, sample_item, is_phonetized, classify_calls>>

loader_vars == <<corpus_file, loader_class, corpus_outcome, yielded>>

workflow_vars == <<wf_args, tool, wf_pc, health, spawned, exit_code>>

balancer_vars == <<gb_data, gemini_data, mixed_size, mixed_ratio, mixed_outcome,
                   sampled_gb, sampled_gemini, gb_sizes, gemini_sizes, gb_stratum,
                   gemini_stratum, save_outcome, written, stats_data,
                   stats_outcome, stats>>

RECURSIVE SeqsUpTo(_, _)
\* all sequences over S of length at most n
SeqsUpTo(S, n) ==
    IF n = 0 THEN { <<>> }
    ELSE LET shorter == SeqsUpTo(S, n - 1)
         IN shorter \cup { Append(q, x) : q \in { p \in shorter : Len(p) = n - 1 }, x \in S }

Seeds == 0..MaxSeed

(***************************************************************************)
(* DataBalancer (src/src/sampling/balancer.py) and ProdigyFormatter        *)
(* (src/src/prodigy/formatter.py)                                          *)
(***************************************************************************)
\* the items at a list of positions of a list
ItemsAt(items, positions) == [k \in 1..Len(positions) |-> items[positions[k]]]

\* what balance_mixed_data hands back given the outcomes g and m of its two
\* sample() calls; the strata and sizes of both calls are reported with it
MixedResult(gb, gemini, g, m) ==
    IF g.outcome = "raised"
    THEN [outcome |-> "raised", sampled_gb |-> <<>>, sampled_gemini |-> <<>>,
          gb_sizes |-> g.sizes, gemini_sizes |-> [dialogue |-> 0, non_dialogue |-> 0],
          gb_stratum |-> NonDialogueSamples(gb), gemini_stratum |-> <<>>,
          rng |-> g.rng]
    ELSE IF m.outcome = "raised"
    THEN [outcome |-> "raised", sampled_gb |-> <<>>, sampled_gemini |-> <<>>,
          gb_sizes |-> g.sizes, gemini_sizes |-> m.sizes,
          gb_stratum |-> NonDialogueSamples(gb),
          gemini_stratum |-> DialogueSamples(gemini), rng |-> m.rng]
    ELSE [outcome |-> "returned", sampled_gb |-> ItemsAt(gb, g.result),
          sampled_gemini |-> ItemsAt(gemini, m.result),
          gb_sizes |-> g.sizes, gemini_sizes |-> m.sizes,
          gb_stratum |-> NonDialogueSamples(gb),
          gemini_stratum |-> DialogueSamples(gemini), rng |-> m.rng]

\* balance_mixed_data from "Calculate sample sizes" on: the literary call
\* with ratio 0.0, then the dialogue call with ratio 1.0 on the same random
\* source
BalanceMixedData(gb, gemini, size, ratio, s) ==
    LET g == SampleCall(gb, size - IntProduct(size, ratio), <<0, 1>>, s)
    IN MixedResult(gb, gemini, g,
                   SampleCall(gemini, IntProduct(size, ratio), <<1, 1>>, g.rng))

\* ProdigyFormatter.format_gb_data, by the fields the items of the model have
FormatGBData(gb_item, is_dialogue) ==
    [text |-> gb_item.sample, source |-> "gb_data", words |-> gb_item.words,
     is_dialogue |-> is_dialogue]

\* the attributes a GeminiDataItem has
GeminiAttributes ==
    { "utterance", "speaker", "speaker_in_char_list", "addressee",
      "addressee_in_char_list" }

\* the attributes format_gemini_data reads from its item
GeminiAttributesRead ==
    { "utterance", "source_file", "speaker", "speaker_in_char_list", "addressee",
      "addressee_in_char_list" }

\* ProdigyFormatter.format_gemini_data: reading an attribute the item does
\* not have raises AttributeError
FormatGeminiData(gemini_item, flag) ==
    IF GeminiAttributesRead \subseteq GeminiAttributes
    THEN [outcome |-> "returned",
          record |-> [text |-> gemini_item.utterance, source |-> "gemini_data",
                      is_dialogue |-> TRUE, is_phonetized |-> flag]]
    ELSE [outcome |-> "raised", record |-> <<>>]

\* _convert_to_prodigy_format(item) given what _is_phonetized_sample made of
\* a dialogue item: the record, or "raised"
ConvertToProdigyFormat(it, c) ==
    IF it.kind = "GB"
    THEN [outcome |-> "returned", record |-> FormatGBData(it, IsDialogueSample(it))]
    ELSE IF it.kind = "Gemini"
    THEN FormatGeminiData(it, c.value)
    ELSE [outcome |-> "returned",
          record |-> [text |-> <<>>, source |-> "unknown", is_dialogue |-> FALSE]]

\* the usage counter after _convert_to_prodigy_format(item)
UsageAfter(it, c, usage) == IF it.kind = "Gemini" THEN c.pattern_usage ELSE usage

RECURSIVE SaveLoop(_, _, _, _, _)
\* one turn of "for item in data" given the conversion f of item i
SaveStep(items, i, lines, pats, usage, f) ==
    IF f.outcome = "raised"
    THEN [outcome |-> "raised", written |-> lines, pattern_usage |-> usage]
    ELSE SaveLoop(items, i + 1, Append(lines, f.record), pats, usage)

\* "for item in data" of save_balanced_data: the lines written, the usage
\* counter left, and whether a conversion raised
SaveLoop(items, i, lines, pats, usage) ==
    IF i > Len(items)
    THEN [outcome |-> "returned", written |-> lines, pattern_usage |-> usage]
    ELSE SaveStep(items, i, lines, pats,
                  UsageAfter(items[i], IsPhonetizedSample(items[i], pats, usage), usage),
                  ConvertToProdigyFormat(items[i],
                                         IsPhonetizedSample(items[i], pats, usage)))

\* DataBalancer.save_balanced_data
SaveBalancedData(items, pats, usage) == SaveLoop(items, 1, <<>>, pats, usage)

RECURSIVE PartitionLoop(_, _, _, _, _, _)
\* "for item in data" of sample_phonetized_dialogue: the positions of the
\* phonetized and of the other items, and the usage counter left
PartitionLoop(items, i, pats, usage, yes, no) ==
    IF i > Len(items)
    THEN [phonetized |-> yes, non_phonetized |-> no, pattern_usage |-> usage]
    ELSE IF IsPhonetizedSample(items[i], pats, usage).value
    THEN PartitionLoop(items, i + 1, pats,
                       IsPhonetizedSample(items[i], pats, usage).pattern_usage,
                       Append(yes, i), no)
    ELSE PartitionLoop(items, i + 1, pats, usage, yes, Append(no, i))

\* sample_phonetized_dialogue() from "Calculate sample sizes for each class"
\* on, given the two classes; the sizes are named as in sample(), dialogue
\* standing for phonetized
PhonetizedDialogueCall(part, size, ratio, s) ==
    LET sizes == FinalSizes(Len(part.phonetized), Len(part.non_phonetized), size,
                            ratio)
        sd == IF sizes.dialogue > 0
              THEN RandomSample(part.phonetized, sizes.dialogue, s)
              ELSE [raised |-> FALSE, out |-> <<>>, rng |-> s]
        sn == IF sizes.non_dialogue > 0
              THEN RandomSample(part.non_phonetized, sizes.non_dialogue, sd.rng)
              ELSE [raised |-> FALSE, out |-> <<>>, rng |-> sd.rng]
        sh == RandomShuffle(sd.out \o sn.out, sn.rng)
    IN IF sd.raised
       THEN [outcome |-> "raised", result |-> <<>>, rng |-> sd.rng]
       ELSE IF sn.raised
       THEN [outcome |-> "raised", result |-> <<>>, rng |-> sn.rng]
       ELSE [outcome |-> "returned", result |-> sh.out, rng |-> sh.rng]

\* the items both sampling methods are run on: a literary excerpt with a
\* dialogue marker and no phonetic word, one without a marker and with a
\* phonetic word, and an utterance that matches the pattern "hi"
QuotaPool ==
    { GBDataItem(<<"S", "a", "i", "d">>, <<>>),
      GBDataItem(<<"S", "a", "d">>, << <<"a">> >>),
      GeminiDataItem(<<"h", "i">>) }

\* the ratios 0.0, 0.5 and 0.75
QuotaRatios == { <<0, 1>>, <<1, 2>>, <<3, 4>> }

QuotaInputs ==
    [data : SeqsUpTo(QuotaPool, MaxItems), sample_size : 0..MaxTarget,
     dialogue_ratio : QuotaRatios]

RECURSIVE CountLoop(_, _, _, _, _, _)
\* "for item in data" of get_balance_statistics: the two counts, and the
\* usage counter the classifier leaves
CountLoop(items, i, pats, usage, phonetized_count, non_phonetized_count) ==
    IF i > Len(items)
    THEN [phonetized |-> phonetized_count, non_phonetized |-> non_phonetized_count,
          pattern_usage |-> usage]
    ELSE IF IsPhonetizedSample(items[i], pats, usage).value
    THEN CountLoop(items, i + 1, pats,
                   IsPhonetizedSample(items[i], pats, usage).pattern_usage,
                   phonetized_count + 1, non_phonetized_count)
    ELSE CountLoop(items, i + 1, pats, usage, phonetized_count,
                   non_phonetized_count + 1)

\* "phonetized_count / total if total > 0 else 0", as the fraction <<num, den>>
PhonetizedRatio(phonetized_count, total) ==
    IF total > 0 THEN <<phonetized_count, total>> ELSE <<0, 1>>

\* "1 - phonetized_ratio"
NonPhonetizedRatio(phonetized_ratio) ==
    <<phonetized_ratio[2] - phonetized_ratio[1], phonetized_ratio[2]>>

\* the dictionary get_balance_statistics builds from the counts c
BalanceStatistics(total, c) ==
    [total |-> total, phonetized |-> c.phonetized,
     non_phonetized |-> c.non_phonetized,
     phonetized_ratio |-> PhonetizedRatio(c.phonetized, total),
     non_phonetized_ratio |-> NonPhonetizedRatio(PhonetizedRatio(c.phonetized, total))]

\* the items statistics are asked of: literary items with and without
\* phonetic words, an utterance that matches the pattern "a", and an object
\* of another type
StatsPool ==
    { GBDataItem(<<"S", "a", "d">>, <<>>),
      GBDataItem(<<"S", "a", "d">>, << <<"a">> >>),
      GeminiDataItem(<<"a">>),
      OtherItem }

\* the patterns files the balancer's sampler is built on
StatsFiles == { PatternFile("ok", <<>>), PatternFile("ok", << WordLine(<<"a">>) >>) }

\* the literary and the dialogue items mixed mode is run on
GBPool ==
    { GBDataItem(<<"S", "a", "i", "d">>, <<>>), GBDataItem(<<"S", "a", "d">>, <<>>) }

GeminiPool == { GeminiDataItem(<<"h", "i">>) }

MixedInputs ==
    [gb_data : SeqsUpTo(GBPool, MaxItems), gemini_data : SeqsUpTo(GeminiPool, MaxItems),
     sample_size : 0..MaxTarget, dialogue_ratio : Ratios]


\* the two sampling scenarios of the specification: 10 items of which 7
\* (resp. 9) are dialogue, sample_size 6, dialogue_ratio 0.5
Repeat(item, n) == [i \in 1..n |-> item]

Scenarios ==
    { [data |-> Repeat(GeminiDataItem(<<"h", "i">>), 7)
                    \o Repeat(GBDataItem(<<"S", "a", "d">>, <<>>), 3),
       sample_size |-> 6, dialogue_ratio |-> <<1, 2>>],
      [data |-> Repeat(GeminiDataItem(<<"h", "i">>), 9)
                    \o Repeat(GBDataItem(<<"S", "a", "d">>, <<>>), 1),
       sample_size |-> 6, dialogue_ratio |-> <<1, 2>>] }

\* the arguments sample() is called with
Inputs ==
    [data : SeqsUpTo(ItemPool, MaxItems), sample_size : 0..MaxTarget,
     dialogue_ratio : Ratios] \cup Scenarios

\* SamplingStrategy.__init__: the module-level source is seeded only when a
\* seed is given; otherwise it is left in whatever state it is in
SamplerInit ==
    /\ random_seed \in Seeds \cup {None}
    /\ rng \in IF random_seed = None THEN 0..(RngMod - 1) ELSE {SeedState(random_seed)}
    /\ \E in \in Inputs :
          /\ data = in.data
          /\ sample_size = in.sample_size
          /\ dialogue_ratio = in.dialogue_ratio
    /\ calls = 0
    /\ outcome = "none"
    /\ result = <<>>
    /\ dialogue_sample_size = 0
    /\ non_dialogue_sample_size = 0
    /\ prev_outcome = "none"
    /\ prev_result = <<>>
    /\ method = "none"
    /\ quota_steps = <<>>

\* PatternGenerator.__init__ under one of the configurations, and the data
\* file it is to be run on
GeneratorInit ==
    /\ settings \in PatternSettings
    /\ stopwords \in IF settings.enable_stopword_filter
                      THEN {StopWords, {}}   \* {} when loading the stop words failed
                      ELSE {{}}
    /\ seen_patterns = {}
    /\ corpus \in Corpora
    /\ gen_calls = 0
    /\ patterns = <<>>
    /\ prev_patterns = <<>>

\* no generator at work: the sampler alone
NoGenerator ==
    /\ settings = [min_pattern_length |-> 3, max_pattern_length |-> 50,
                   enable_stopword_filter |-> TRUE]
    /\ stopwords = StopWords
    /\ seen_patterns = {}
    /\ corpus = <<>>
    /\ gen_calls = 0
    /\ patterns = <<>>
    /\ prev_patterns = <<>>

\* no sampler at work: the generator alone
NoSampler ==
    /\ random_seed = None
    /\ rng = 0
    /\ data = <<>>
    /\ sample_size = 0
    /\ dialogue_ratio = <<1, 2>>
    /\ calls = 0
    /\ outcome = "none"
    /\ result = <<>>
    /\ dialogue_sample_size = 0
    /\ non_dialogue_sample_size = 0
    /\ prev_outcome = "none"
    /\ prev_result = <<>>
    /\ method = "none"
    /\ quota_steps = <<>>

\* no filter at work
NoFilter ==
    /\ filter_input = <<>>
    /\ filter_calls = 0
    /\ filter_output = <<>>
    /\ filter_prev = <<>>

\* a sampler built without a pattern file and never asked to classify
NoClassifier ==
    /\ patterns_file = PatternFile("ok", <<>>)
    /\ exceptions_file = ExceptionsFile("none", <<>>)
    /\ exceptions = {}
    /\ phonetic_patterns = {}
    /\ load_outcome = "none"
    /\ load_error = FALSE
    /\ pattern_usage = <<>>
    /\ sample_item = OtherItem
    /\ is_phonetized = FALSE
    /\ classify_calls = 0

\* no corpus file opened
NoLoader ==
    /\ corpus_file = CorpusFile("ok", <<>>)
    /\ loader_class = "none"
    /\ corpus_outcome = "none"
    /\ yielded = <<>>

\* no balancer at work
\* no statistics asked for
NoStatistics ==
    /\ stats_data = <<>>
    /\ stats_outcome = "none"
    /\ stats = <<>>

\* no mixed-mode run
NoMixedRun ==
    /\ gb_data = <<>>
    /\ gemini_data = <<>>
    /\ mixed_size = 0
    /\ mixed_ratio = <<1, 2>>
    /\ mixed_outcome = "none"
    /\ sampled_gb = <<>>
    /\ sampled_gemini = <<>>
    /\ gb_sizes = [dialogue |-> 0, non_dialogue |-> 0]
    /\ gemini_sizes = [dialogue |-> 0, non_dialogue |-> 0]
    /\ gb_stratum = <<>>
    /\ gemini_stratum = <<>>
    /\ save_outcome = "none"
    /\ written = <<>>

NoBalancer == NoMixedRun /\ NoStatistics

\* no script run
NoWorkflow ==
    /\ wf_args = [script |-> "full", earlier_steps |-> "ok", run_prodigy |-> FALSE,
                  input_exists |-> FALSE, patterns_missing |-> FALSE,
                  annotation_type |-> "spans", popen_raises |-> FALSE]
    /\ tool = "ok"
    /\ wf_pc = "idle"
    /\ health = "unchecked"
    /\ spawned = 0
    /\ exit_code = None

Init ==
    SamplerInit /\ NoGenerator /\ NoFilter /\ NoClassifier /\ NoLoader /\ NoBalancer
    /\ NoWorkflow

\* one call sample(data, sample_size, dialogue_ratio) on the sampler
Sample ==
    /\ calls < MaxCalls
    /\ LET c == SampleCall(data, sample_size, dialogue_ratio, rng)
       IN /\ outcome' = c.outcome
          /\ result' = c.result
          /\ dialogue_sample_size' = c.sizes.dialogue
          /\ non_dialogue_sample_size' = c.sizes.non_dialogue
          /\ rng' = c.rng
    /\ calls' = calls + 1
    /\ prev_outcome' = outcome
    /\ prev_result' = result
    /\ method' = "sample"
    /\ quota_steps' = QuotaSteps(Len(DialogueSamples(data)),
                                 Len(NonDialogueSamples(data)), sample_size,
                                 dialogue_ratio)
    /\ UNCHANGED <<random_seed, data, sample_size, dialogue_ratio>>
    /\ UNCHANGED <<generator_vars, filter_vars, classifier_vars, loader_vars,
                   balancer_vars, workflow_vars>>

Next == Sample

Spec == Init /\ [][Next]_vars

\* one call generate_from_gb_data(data_file) on the generator
GenerateFromGBData ==
    /\ gen_calls < MaxGenCalls
    /\ \E g \in GenerateItems(corpus, 1, seen_patterns, settings, stopwords) :
          /\ patterns' = g.patterns
          /\ seen_patterns' = g.seen
    /\ prev_patterns' = patterns
    /\ gen_calls' = gen_calls + 1
    /\ UNCHANGED <<settings, stopwords, corpus>>
    /\ UNCHANGED <<sampler_vars, filter_vars, classifier_vars, loader_vars,
                   balancer_vars, workflow_vars>>

GeneratorInitAlone ==
    GeneratorInit /\ NoSampler /\ NoFilter /\ NoClassifier /\ NoLoader /\ NoBalancer
    /\ NoWorkflow

GeneratorNext == GenerateFromGBData

GeneratorSpec == GeneratorInitAlone /\ [][GeneratorNext]_vars

\* a pattern list handed to the filter
FilterInit ==
    /\ filter_input \in SeqsUpTo(PatternPool, MaxPatterns)
    /\ filter_calls = 0
    /\ filter_output = <<>>
    /\ filter_prev = <<>>

\* deduplicate_patterns applied to the list, then to its own result
Deduplicate ==
    /\ filter_calls < MaxFilterCalls
    /\ filter_output' = DeduplicatePatterns(IF filter_calls = 0 THEN filter_input
                                                               ELSE filter_output)
    /\ filter_prev' = filter_output
    /\ filter_calls' = filter_calls + 1
    /\ UNCHANGED filter_input
    /\ UNCHANGED <<sampler_vars, generator_vars, classifier_vars, loader_vars,
                   balancer_vars, workflow_vars>>

FilterInitAlone ==
    FilterInit /\ NoSampler /\ NoGenerator /\ NoClassifier /\ NoLoader /\ NoBalancer
    /\ NoWorkflow

FilterNext == Deduplicate

FilterSpec == FilterInitAlone /\ [][FilterNext]_vars

\* the files on disk and the item, before StratifiedSampler is constructed
ClassifierInit ==
    /\ \E in \in ClassifierInputs :
          /\ patterns_file = in.file
          /\ exceptions_file = in.exceptions
          /\ sample_item = in.item
    /\ exceptions = {}
    /\ phonetic_patterns = {}
    /\ load_outcome = "none"
    /\ load_error = FALSE
    /\ pattern_usage = <<>>
    /\ is_phonetized = FALSE
    /\ classify_calls = 0

\* StratifiedSampler.__init__ with a patterns_file
Construct ==
    /\ load_outcome = "none"
    /\ exceptions' = LoadExceptions(exceptions_file)
    /\ LET l == LoadPatterns(patterns_file, exceptions')
       IN /\ load_outcome' = l.outcome
          /\ phonetic_patterns' = l.patterns
          /\ load_error' = l.error
    /\ pattern_usage' = <<>>
    /\ UNCHANGED <<patterns_file, exceptions_file, sample_item, is_phonetized,
                   classify_calls>>
    /\ UNCHANGED <<sampler_vars, generator_vars, filter_vars, loader_vars,
                   balancer_vars, workflow_vars>>

\* _is_phonetized_sample(item) on the constructed sampler: the first call on
\* the item of the initial state, a later call on it again or on another item
Classify ==
    /\ load_outcome = "returned"
    /\ classify_calls < MaxClassify
    /\ \E it \in IF classify_calls = 0 THEN {sample_item}
                                       ELSE {sample_item} \cup FollowUpItems :
          /\ sample_item' = it
          /\ is_phonetized' =
                IsPhonetizedSample(it, phonetic_patterns, pattern_usage).value
          /\ pattern_usage' =
                IsPhonetizedSample(it, phonetic_patterns, pattern_usage).pattern_usage
    /\ classify_calls' = classify_calls + 1
    /\ UNCHANGED <<patterns_file, exceptions_file, exceptions, phonetic_patterns,
                   load_outcome, load_error>>
    /\ UNCHANGED <<sampler_vars, generator_vars, filter_vars, loader_vars,
                   balancer_vars, workflow_vars>>

ClassifierInitAlone ==
    ClassifierInit /\ NoSampler /\ NoGenerator /\ NoFilter /\ NoLoader /\ NoBalancer
    /\ NoWorkflow

ClassifierNext == Construct \/ Classify

ClassifierSpec == ClassifierInitAlone /\ [][ClassifierNext]_vars

\* a corpus file on disk
LoaderInit ==
    /\ corpus_file \in CorpusFiles
    /\ loader_class = "none"
    /\ corpus_outcome = "none"
    /\ yielded = <<>>

\* create_loader(file_path)
CreateLoaderCall ==
    /\ loader_class = "none"
    /\ corpus_outcome = "none"
    /\ LET c == CreateLoader(corpus_file)
       IN /\ loader_class' = c.class
          /\ corpus_outcome' = IF c.outcome = "raised" THEN "raised" ELSE "none"
    /\ UNCHANGED <<corpus_file, yielded>>
    /\ UNCHANGED <<sampler_vars, generator_vars, filter_vars, classifier_vars,
                   balancer_vars, workflow_vars>>

\* the loader's load() consumed to its end
LoadCall ==
    /\ loader_class # "none"
    /\ corpus_outcome = "none"
    /\ LET l == Load(loader_class, corpus_file)
       IN /\ corpus_outcome' = l.outcome
          /\ yielded' = l.yielded
    /\ UNCHANGED <<corpus_file, loader_class>>
    /\ UNCHANGED <<sampler_vars, generator_vars, filter_vars, classifier_vars,
                   balancer_vars, workflow_vars>>

LoaderInitAlone ==
    LoaderInit /\ NoSampler /\ NoGenerator /\ NoFilter /\ NoClassifier /\ NoBalancer
    /\ NoWorkflow

LoaderNext == CreateLoaderCall \/ LoadCall

LoaderSpec == LoaderInitAlone /\ [][LoaderNext]_vars

\* DataBalancer.__init__ without a pattern file, and the loaded items and
\* arguments of balance_mixed_data; sample() of the sampler is not called
\* directly
BalancerInit ==
    /\ random_seed \in Seeds \cup {None}
    /\ rng \in IF random_seed = None THEN 0..(RngMod - 1) ELSE {SeedState(random_seed)}
    /\ data = <<>>
    /\ sample_size = 0
    /\ dialogue_ratio = <<1, 2>>
    /\ calls = 0
    /\ outcome = "none"
    /\ result = <<>>
    /\ dialogue_sample_size = 0
    /\ non_dialogue_sample_size = 0
    /\ prev_outcome = "none"
    /\ prev_result = <<>>
    /\ method = "none"
    /\ quota_steps = <<>>
    /\ \E in \in MixedInputs :
          /\ gb_data = in.gb_data
          /\ gemini_data = in.gemini_data
          /\ mixed_size = in.sample_size
          /\ mixed_ratio = in.dialogue_ratio
    /\ mixed_outcome = "none"
    /\ sampled_gb = <<>>
    /\ sampled_gemini = <<>>
    /\ gb_sizes = [dialogue |-> 0, non_dialogue |-> 0]
    /\ gemini_sizes = [dialogue |-> 0, non_dialogue |-> 0]
    /\ gb_stratum = <<>>
    /\ gemini_stratum = <<>>
    /\ save_outcome = "none"
    /\ written = <<>>
    /\ NoStatistics

\* balance_mixed_data on the loaded items
BalanceMixed ==
    /\ mixed_outcome = "none"
    /\ LET b == BalanceMixedData(gb_data, gemini_data, mixed_size, mixed_ratio, rng)
       IN /\ mixed_outcome' = b.outcome
          /\ sampled_gb' = b.sampled_gb
          /\ sampled_gemini' = b.sampled_gemini
          /\ gb_sizes' = b.gb_sizes
          /\ gemini_sizes' = b.gemini_sizes
          /\ gb_stratum' = b.gb_stratum
          /\ gemini_stratum' = b.gemini_stratum
          /\ rng' = b.rng
    /\ UNCHANGED <<gb_data, gemini_data, mixed_size, mixed_ratio, save_outcome, written,
                   stats_data, stats_outcome, stats>>
    /\ UNCHANGED <<random_seed, data, sample_size, dialogue_ratio, calls, outcome,
                   result, dialogue_sample_size, non_dialogue_sample_size,
                   prev_outcome, prev_result, method, quota_steps>>
    /\ UNCHANGED <<generator_vars, filter_vars, classifier_vars, loader_vars,
                   workflow_vars>>

\* save_balanced_data(gb_data + gemini_data) as the sampling script calls it
SaveBalanced ==
    /\ mixed_outcome = "returned"
    /\ save_outcome = "none"
    /\ LET w == SaveBalancedData(sampled_gb \o sampled_gemini, phonetic_patterns,
                                 pattern_usage)
       IN /\ save_outcome' = w.outcome
          /\ written' = w.written
          /\ pattern_usage' = w.pattern_usage
    /\ UNCHANGED <<gb_data, gemini_data, mixed_size, mixed_ratio, mixed_outcome,
                   sampled_gb, sampled_gemini, gb_sizes, gemini_sizes, gb_stratum,
                   gemini_stratum, stats_data, stats_outcome, stats>>
    /\ UNCHANGED <<patterns_file, exceptions_file, exceptions, phonetic_patterns,
                   load_outcome,
                   load_error, sample_item, is_phonetized, classify_calls>>
    /\ UNCHANGED <<sampler_vars, generator_vars, filter_vars, loader_vars,
                   workflow_vars>>

BalancerInitAlone ==
    BalancerInit /\ NoGenerator /\ NoFilter /\ NoClassifier /\ NoLoader /\ NoWorkflow

BalancerNext == BalanceMixed \/ SaveBalanced

BalancerSpec == BalancerInitAlone /\ [][BalancerNext]_vars

\* a StratifiedSampler built on a patterns file that holds the pattern "hi"
QuotaInit ==
    /\ random_seed \in Seeds \cup {None}
    /\ rng \in IF random_seed = None THEN 0..(RngMod - 1) ELSE {SeedState(random_seed)}
    /\ \E in \in QuotaInputs :
          /\ data = in.data
          /\ sample_size = in.sample_size
          /\ dialogue_ratio = in.dialogue_ratio
    /\ calls = 0
    /\ outcome = "none"
    /\ result = <<>>
    /\ dialogue_sample_size = 0
    /\ non_dialogue_sample_size = 0
    /\ prev_outcome = "none"
    /\ prev_result = <<>>
    /\ method = "none"
    /\ quota_steps = <<>>
    /\ patterns_file = PatternFile("ok", << WordLine(<<"h", "i">>) >>)
    /\ exceptions_file = ExceptionsFile("none", <<>>)
    /\ exceptions = LoadExceptions(exceptions_file)
    /\ phonetic_patterns = LoadPatterns(patterns_file, exceptions).patterns
    /\ load_outcome = "returned"
    /\ load_error = FALSE
    /\ pattern_usage = <<>>
    /\ sample_item = OtherItem
    /\ is_phonetized = FALSE
    /\ classify_calls = 0

\* sample_phonetized_dialogue(data, sample_size, phonetized_ratio)
SamplePhonetizedDialogue ==
    /\ calls < MaxCalls
    /\ LET part == PartitionLoop(data, 1, phonetic_patterns, pattern_usage, <<>>, <<>>)
       IN /\ pattern_usage' = part.pattern_usage
          /\ quota_steps' = QuotaSteps(Len(part.phonetized), Len(part.non_phonetized),
                                       sample_size, dialogue_ratio)
          /\ LET c == PhonetizedDialogueCall(part, sample_size, dialogue_ratio, rng)
             IN /\ outcome' = c.outcome
                /\ result' = c.result
                /\ rng' = c.rng
    /\ calls' = calls + 1
    /\ prev_outcome' = outcome
    /\ prev_result' = result
    /\ method' = "sample_phonetized_dialogue"
    /\ UNCHANGED <<random_seed, data, sample_size, dialogue_ratio,
                   dialogue_sample_size, non_dialogue_sample_size>>
    /\ UNCHANGED <<patterns_file, exceptions_file, exceptions, phonetic_patterns,
                   load_outcome, load_error, sample_item, is_phonetized,
                   classify_calls>>
    /\ UNCHANGED <<generator_vars, filter_vars, loader_vars, balancer_vars,
                   workflow_vars>>

QuotaInitAlone ==
    /\ QuotaInit
    /\ NoGenerator /\ NoFilter /\ NoLoader /\ NoBalancer /\ NoWorkflow

QuotaNext == Sample \/ SamplePhonetizedDialogue

QuotaSpec == QuotaInitAlone /\ [][QuotaNext]_vars

\* the literary corpora the pipeline is run on: one item with one word
PipelineCorpora == { <<GBDataItem(<<"S", "a", "d">>, <<w>>)>> : w \in Words }

\* the lines save_patterns writes, as _load_patterns parses them: one JSON
\* object per pattern, its "pattern" the list of {"lower": token}
PatternLines(pats) ==
    [k \in 1..Len(pats) |-> PatternLine("object", TRUE, pats[k].pattern)]

\* utterances that hold the token as one of their whitespace-separated
\* words: alone, and after another word
UtterancesWith(token) == { token, <<"A", " ">> \o token }

\* a PatternGenerator under one of the configurations, its output file not
\* yet written
PipelineInit ==
    /\ settings \in PatternSettings
    /\ stopwords \in IF settings.enable_stopword_filter THEN {StopWords, {}} ELSE {{}}
    /\ seen_patterns = {}
    /\ corpus \in PipelineCorpora
    /\ gen_calls = 0
    /\ patterns = <<>>
    /\ prev_patterns = <<>>
    /\ patterns_file = PatternFile("missing", <<>>)
    /\ exceptions_file = ExceptionsFile("none", <<>>)
    /\ exceptions = {}
    /\ phonetic_patterns = {}
    /\ load_outcome = "none"
    /\ load_error = FALSE
    /\ pattern_usage = <<>>
    /\ sample_item = OtherItem
    /\ is_phonetized = FALSE
    /\ classify_calls = 0

\* PatternGenerator.save_patterns(patterns, output_file) on what
\* generate_from_gb_data returned
SavePatterns ==
    /\ gen_calls > 0
    /\ patterns_file.status = "missing"
    /\ patterns_file' = PatternFile("ok", PatternLines(patterns))
    /\ UNCHANGED <<exceptions_file, exceptions, phonetic_patterns, load_outcome,
                   load_error, pattern_usage, sample_item, is_phonetized,
                   classify_calls>>
    /\ UNCHANGED <<sampler_vars, generator_vars, filter_vars, loader_vars,
                   balancer_vars, workflow_vars>>

\* _is_phonetized_sample on a dialogue item whose utterance holds the first
\* token of one of the generated patterns as a word
ClassifyUtterance ==
    /\ load_outcome = "returned"
    /\ classify_calls < MaxClassify
    /\ \E k \in 1..Len(patterns) :
          /\ patterns[k].pattern # <<>>
          /\ \E u \in UtterancesWith(TokenLower(patterns[k].pattern[1])) :
                /\ sample_item' = GeminiDataItem(u)
                /\ is_phonetized' = IsPhonetizedSample(GeminiDataItem(u),
                                        phonetic_patterns, pattern_usage).value
                /\ pattern_usage' = IsPhonetizedSample(GeminiDataItem(u),
                                        phonetic_patterns, pattern_usage).pattern_usage
    /\ classify_calls' = classify_calls + 1
    /\ UNCHANGED <<patterns_file, exceptions_file, exceptions, phonetic_patterns,
                   load_outcome, load_error>>
    /\ UNCHANGED <<sampler_vars, generator_vars, filter_vars, loader_vars,
                   balancer_vars, workflow_vars>>

PipelineInitAlone ==
    /\ PipelineInit
    /\ NoSampler /\ NoFilter /\ NoLoader /\ NoBalancer /\ NoWorkflow

PipelineNext ==
    \/ GenerateFromGBData
    \/ SavePatterns
    \/ Construct
    \/ ClassifyUtterance

PipelineSpec == PipelineInitAlone /\ [][PipelineNext]_vars

\* a DataBalancer about to be built on a patterns file, and the list its
\* statistics are asked of
StatisticsInit ==
    /\ stats_data \in SeqsUpTo(StatsPool, MaxItems)
    /\ stats_outcome = "none"
    /\ stats = <<>>
    /\ patterns_file \in StatsFiles
    /\ exceptions_file = ExceptionsFile("none", <<>>)
    /\ exceptions = {}
    /\ phonetic_patterns = {}
    /\ load_outcome = "none"
    /\ load_error = FALSE
    /\ pattern_usage = <<>>
    /\ sample_item = OtherItem
    /\ is_phonetized = FALSE
    /\ classify_calls = 0

\* DataBalancer.get_balance_statistics(data)
GetBalanceStatistics ==
    /\ load_outcome = "returned"
    /\ stats_outcome = "none"
    /\ stats' = BalanceStatistics(Len(stats_data),
                                  CountLoop(stats_data, 1, phonetic_patterns,
                                            pattern_usage, 0, 0))
    /\ pattern_usage' = CountLoop(stats_data, 1, phonetic_patterns, pattern_usage,
                                  0, 0).pattern_usage
    /\ stats_outcome' = "returned"
    /\ UNCHANGED <<gb_data, gemini_data, mixed_size, mixed_ratio, mixed_outcome,
                   sampled_gb, sampled_gemini, gb_sizes, gemini_sizes, gb_stratum,
                   gemini_stratum, save_outcome, written, stats_data>>
    /\ UNCHANGED <<patterns_file, exceptions_file, exceptions, phonetic_patterns,
                   load_outcome, load_error, sample_item, is_phonetized,
                   classify_calls>>
    /\ UNCHANGED <<sampler_vars, generator_vars, filter_vars, loader_vars,
                   workflow_vars>>

StatisticsInitAlone ==
    /\ StatisticsInit
    /\ NoSampler /\ NoGenerator /\ NoFilter /\ NoLoader /\ NoMixedRun /\ NoWorkflow

StatisticsNext == Construct \/ GetBalanceStatistics

StatisticsSpec == StatisticsInitAlone /\ [][StatisticsNext]_vars

\* main() of one of the scripts entered
WorkflowInit ==
    /\ wf_args \in WorkflowArgs
    /\ tool \in ToolStates
    /\ wf_pc = "start"
    /\ health = "unchecked"
    /\ spawned = 0
    /\ exit_code = None

\* run_full_workflow.py: steps 1 and 2 (pattern generation, sampling), an
\* exception in them ending the run with 1, then the tests at the head of
\* step 3
FullWorkflowSteps ==
    /\ wf_args.script = "full"
    /\ wf_pc = "start"
    /\ IF wf_args.earlier_steps = "failed"
       THEN wf_pc' = "done" /\ exit_code' = 1
       ELSE IF ~wf_args.run_prodigy
       THEN wf_pc' = "done" /\ exit_code' = 0
       ELSE IF ~wf_args.input_exists
       THEN wf_pc' = "done" /\ exit_code' = 1
       ELSE wf_pc' = "check" /\ exit_code' = exit_code
    /\ UNCHANGED <<wf_args, tool, health, spawned>>
    /\ UNCHANGED <<sampler_vars, generator_vars, filter_vars, classifier_vars,
                   loader_vars, balancer_vars>>

\* run_prodigy_localhost.py: the validation of the input and patterns files
LocalhostValidate ==
    /\ wf_args.script = "localhost"
    /\ wf_pc = "start"
    /\ IF ~wf_args.input_exists \/ wf_args.patterns_missing
       THEN wf_pc' = "done" /\ exit_code' = 1
       ELSE wf_pc' = "check" /\ exit_code' = exit_code
    /\ UNCHANGED <<wf_args, tool, health, spawned>>
    /\ UNCHANGED <<sampler_vars, generator_vars, filter_vars, classifier_vars,
                   loader_vars, balancer_vars>>

\* "if not runner.check_prodigy_installation(): ... return 1"
CheckInstallation ==
    /\ wf_pc = "check"
    /\ health' = IF CheckProdigyInstallation(tool) THEN "passed" ELSE "failed"
    /\ wf_pc' = AfterCheck(CheckProdigyInstallation(tool))
    /\ exit_code' = IF AfterCheck(CheckProdigyInstallation(tool)) = "done" THEN 1
                                                                          ELSE exit_code
    /\ UNCHANGED <<wf_args, tool, spawned>>
    /\ UNCHANGED <<sampler_vars, generator_vars, filter_vars, classifier_vars,
                   loader_vars, balancer_vars>>

\* runner.run_spans_manual / run_ner_manual: subprocess.Popen starts the
\* annotation process or raises; an unknown annotation type of
\* run_prodigy_localhost.py returns 1 without starting anything
RunAnnotation ==
    /\ wf_pc = "run"
    /\ IF wf_args.script = "localhost" /\ wf_args.annotation_type = "other"
       THEN wf_pc' = "done" /\ exit_code' = 1 /\ spawned' = spawned
       ELSE IF wf_args.popen_raises
       THEN wf_pc' = "done" /\ exit_code' = 1 /\ spawned' = spawned
       ELSE wf_pc' = "wait" /\ exit_code' = exit_code /\ spawned' = spawned + 1
    /\ UNCHANGED <<wf_args, tool, health>>
    /\ UNCHANGED <<sampler_vars, generator_vars, filter_vars, classifier_vars,
                   loader_vars, balancer_vars>>

\* process.wait(), the statistics and "return 0"
WaitForProcess ==
    /\ wf_pc = "wait"
    /\ wf_pc' = "done"
    /\ exit_code' = 0
    /\ UNCHANGED <<wf_args, tool, health, spawned>>
    /\ UNCHANGED <<sampler_vars, generator_vars, filter_vars, classifier_vars,
                   loader_vars, balancer_vars>>

WorkflowInitAlone ==
    /\ WorkflowInit
    /\ NoSampler /\ NoGenerator /\ NoFilter /\ NoClassifier /\ NoLoader
    /\ NoBalancer

WorkflowNext ==
    \/ FullWorkflowSteps
    \/ LocalhostValidate
    \/ CheckInstallation
    \/ RunAnnotation
    \/ WaitForProcess

WorkflowSpec == WorkflowInitAlone /\ [][WorkflowNext]_vars

(***************************************************************************)
(* Properties of StratifiedSampler.sample                                  *)
(***************************************************************************)
\* what the two strata of data hold
n_dialogue == Len(DialogueSamples(data))
n_non_dialogue == Len(NonDialogueSamples(data))

\* what the result holds of each stratum
ResultDialogue ==
    Cardinality({ i \in 1..Len(result) : IsDialogueSample(data[result[i]]) })
ResultNonDialogue ==
    Cardinality({ i \in 1..Len(result) : ~IsDialogueSample(data[result[i]]) })

\* both strata hold at least the sample size first calculated for them
BothSufficient ==
    /\ n_dialogue >= InitialSizes(sample_size, dialogue_ratio).dialogue
    /\ n_non_dialogue >= InitialSizes(sample_size, dialogue_ratio).non_dialogue

\* C1: sample never fails because of insufficient supply: whatever the
\* items, the sample size and the ratio, the call returns instead of raising.
C1_NeverRaises == outcome # "raised"

\* C2 as stated: the result is never longer than sample_size, and it has
\* exactly sample_size elements if and only if both strata hold at least
\* the sample size first calculated for them.
C2_QuotaBoundIff ==
    outcome = "returned" =>
        /\ Len(result) <= sample_size
        /\ Len(result) = sample_size <=> BothSufficient

\* C2 amended: a result is never longer than sample_size, and when both
\* strata hold at least the sample size first calculated for them the call
\* returns exactly sample_size elements (the converse does not hold).
C2_QuotaBound ==
    /\ outcome = "returned" => Len(result) <= sample_size
    /\ (calls > 0 /\ BothSufficient) =>
           (outcome = "returned" /\ Len(result) = sample_size)

C2_Witness ==
    /\ outcome = "returned"
    /\ BothSufficient
    /\ sample_size >= 3
    /\ Len(result) = sample_size
    /\ n_dialogue + n_non_dialogue > sample_size

\* C3: with a seed given, two successive calls of sample on the same sampler
\* with the same items, sample size and ratio return the same sequence.
C3_Determinism ==
    (random_seed # None /\ outcome = "returned" /\ prev_outcome = "returned")
        => result = prev_result

\* C4: every element of the result lies in exactly one of the two strata,
\* the number of dialogue elements of the result is the dialogue sample
\* size finally used and the number of non-dialogue elements the
\* non-dialogue sample size finally used.
C4_PartitionCompleteness ==
    outcome = "returned" =>
        /\ \A i \in 1..Len(result) :
              LET in_d == \E k \in 1..n_dialogue : DialogueSamples(data)[k] = result[i]
                  in_n == \E k \in 1..n_non_dialogue : NonDialogueSamples(data)[k] = result[i]
              IN /\ in_d \/ in_n
                 /\ ~(in_d /\ in_n)
                 /\ in_d <=> IsDialogueSample(data[result[i]])
        /\ ResultDialogue = dialogue_sample_size
        /\ ResultNonDialogue = non_dialogue_sample_size

C4_Witness ==
    /\ outcome = "returned"
    /\ ~BothSufficient
    /\ dialogue_sample_size >= 2
    /\ non_dialogue_sample_size >= 1
    /\ ResultDialogue = dialogue_sample_size

\* C5: when both strata hold at least the sample size first calculated for
\* them, the result holds exactly floor(sample_size * ratio) dialogue items
\* and sample_size - floor(sample_size * ratio) non-dialogue items.
C5_ExactQuotas ==
    (calls > 0 /\ BothSufficient) =>
        /\ outcome = "returned"
        /\ ResultDialogue = (sample_size * dialogue_ratio[1]) \div dialogue_ratio[2]
        /\ ResultNonDialogue =
               sample_size - (sample_size * dialogue_ratio[1]) \div dialogue_ratio[2]

\* the scenario of the specification: 7 dialogue and 3 non-dialogue items,
\* sample size 6, ratio 0.5, gives 3 and 3
C5_Witness ==
    /\ outcome = "returned"
    /\ n_dialogue = 7 /\ n_non_dialogue = 3
    /\ sample_size = 6 /\ dialogue_ratio = <<1, 2>>
    /\ ResultDialogue = 3 /\ ResultNonDialogue = 3

\* C6: when the non-dialogue stratum holds fewer items than its sample size
\* and the dialogue stratum holds at least sample_size - len(non_dialogue)
\* items, the sample sizes become len(non_dialogue) and sample_size -
\* len(non_dialogue) and the result has sample_size elements; symmetrically
\* when the dialogue stratum is the short one.
C6_Rebalancing ==
    /\ ( /\ calls > 0
         /\ n_non_dialogue < InitialSizes(sample_size, dialogue_ratio).non_dialogue
         /\ n_dialogue >= sample_size - n_non_dialogue )
       => /\ outcome = "returned"
          /\ non_dialogue_sample_size = n_non_dialogue
          /\ dialogue_sample_size = sample_size - n_non_dialogue
          /\ ResultNonDialogue = n_non_dialogue
          /\ ResultDialogue = sample_size - n_non_dialogue
          /\ Len(result) = sample_size
    /\ ( /\ calls > 0
         /\ n_dialogue < InitialSizes(sample_size, dialogue_ratio).dialogue
         /\ n_non_dialogue >= sample_size - n_dialogue )
       => /\ outcome = "returned"
          /\ dialogue_sample_size = n_dialogue
          /\ non_dialogue_sample_size = sample_size - n_dialogue
          /\ ResultDialogue = n_dialogue
          /\ ResultNonDialogue = sample_size - n_dialogue
          /\ Len(result) = sample_size

\* the scenario of the specification: 9 dialogue items and 1 non-dialogue
\* item, sample size 6, ratio 0.5, gives 5 and 1
C6_Witness ==
    /\ outcome = "returned"
    /\ n_dialogue = 9 /\ n_non_dialogue = 1
    /\ sample_size = 6 /\ dialogue_ratio = <<1, 2>>
    /\ ResultDialogue = 5 /\ ResultNonDialogue = 1

\* C7: with ratio 0.0 the result holds only non-dialogue items and with
\* ratio 1.0 only dialogue items, also when the stratum drawn from holds
\* fewer than sample_size items.
C7_ExclusiveStratum ==
    outcome = "returned" =>
        /\ dialogue_ratio = <<0, 1>> => ResultDialogue = 0
        /\ dialogue_ratio = <<1, 1>> => ResultNonDialogue = 0

\* C8: on an empty item list sample returns the empty sequence, whatever
\* the sample size and the ratio.
C8_EmptyReturnsEmpty ==
    (calls > 0 /\ data = <<>>) => (outcome = "returned" /\ result = <<>>)

(***************************************************************************)
(* Properties of the Pattern Extractor                                     *)
(***************************************************************************)
\* C9: one call never returns two patterns with the same label and the
\* same token sequence.
C9_GlobalUniqueness ==
    \A i, j \in 1..Len(patterns) :
        (patterns[i].label = patterns[j].label
            /\ patterns[i].pattern = patterns[j].pattern) => i = j

\* C10: no returned pattern has zero tokens.
C10_NoEmptyPattern ==
    \A i \in 1..Len(patterns) : Len(patterns[i].pattern) > 0

\* the candidate variants of the words of the corpus
CorpusVariants ==
    UNION { UNION { { Lower(corpus[i].words[k]), Clean(Lower(corpus[i].words[k])) } :
                      k \in 1..Len(corpus[i].words) } :
              i \in 1..Len(corpus) }

\* C11 as stated: the lower length bound is exclusive, no variant of length
\* min_pattern_length or less is ever accepted.
C11_ExclusiveLowerBound ==
    \A v \in seen_patterns : Len(v) > settings.min_pattern_length

\* C11 amended: the lower length bound is inclusive: no variant shorter than
\* min_pattern_length is accepted, and a variant of the corpus whose length
\* is min_pattern_length is accepted when it passes the other filters.
C11_InclusiveLowerBound ==
    /\ \A v \in seen_patterns : Len(v) >= settings.min_pattern_length
    /\ gen_calls > 0 =>
         \A v \in CorpusVariants :
            ( /\ Len(v) = settings.min_pattern_length
              /\ Len(v) <= settings.max_pattern_length
              /\ settings.enable_stopword_filter => v \notin stopwords )
            => v \in seen_patterns

C11_Witness ==
    /\ gen_calls > 0
    /\ \E v \in seen_patterns : Len(v) = settings.min_pattern_length
    /\ \E v \in CorpusVariants :
          v # <<>> /\ Len(v) < settings.min_pattern_length /\ v \notin seen_patterns

\* C12: with stop word filtering enabled, no variant that is a member of the
\* generator's stop word set is ever accepted.
C12_StopwordExclusion ==
    settings.enable_stopword_filter =>
        \A v \in seen_patterns : v \notin stopwords

\* a stop word of sufficient length is a candidate and is not accepted
C12_Witness ==
    /\ settings.enable_stopword_filter
    /\ gen_calls > 0
    /\ \E v \in CorpusVariants :
          /\ v \in stopwords
          /\ Len(v) >= settings.min_pattern_length
          /\ Len(v) <= settings.max_pattern_length
          /\ v \notin seen_patterns

\* the word in lower case, character by character
Lowercased(word) == [i \in 1..Len(word) |-> LowerChar(word[i])]

\* a word that is purely alphanumeric, within the length bounds and, with
\* filtering enabled, no stop word
PlainWord(word) ==
    /\ \A i \in 1..Len(word) : word[i] \in AsciiAlnum
    /\ Len(word) >= settings.min_pattern_length
    /\ Len(word) <= settings.max_pattern_length
    /\ settings.enable_stopword_filter => Lowercased(word) \notin stopwords

\* C13: for one literary item whose words are plain and distinct in lower
\* case, the first call of a fresh generator returns exactly one pattern per
\* word, in order, labelled "PHONETIC", with the lowercased word as its
\* single token.
C13_OnePatternPerWord ==
    ( /\ gen_calls = 1
      /\ Len(corpus) = 1
      /\ \A k \in 1..Len(corpus[1].words) : PlainWord(corpus[1].words[k])
      /\ \A k, l \in 1..Len(corpus[1].words) :
            Lowercased(corpus[1].words[k]) = Lowercased(corpus[1].words[l]) => k = l )
    => patterns = [k \in 1..Len(corpus[1].words) |->
                     [label |-> "PHONETIC",
                      pattern |-> << [lower |-> Lowercased(corpus[1].words[k])] >>]]

\* the item of the unit test under the default settings: two patterns
C13_Witness ==
    /\ gen_calls = 1
    /\ corpus \in ScenarioCorpora
    /\ settings.min_pattern_length = 3
    /\ settings.enable_stopword_filter /\ stopwords # {}
    /\ Len(patterns) = 2
    /\ patterns[1].pattern = << [lower |-> <<"h", "e", "b", "e", "n">>] >>
    /\ patterns[2].pattern = << [lower |-> <<"t", "e", "s", "t">>] >>

(***************************************************************************)
(* Properties of the Pattern Deduplicator                                  *)
(***************************************************************************)
\* the positions of the list whose (label, token texts) pair occurs at no
\* earlier position
FirstOccurrences(pats) ==
    SelectSeq([i \in 1..Len(pats) |-> i],
              LAMBDA i : \A j \in 1..(i - 1) :
                  \/ pats[j].label # pats[i].label
                  \/ [k \in 1..Len(pats[j].pattern) |-> TokenLower(pats[j].pattern[k])]
                       # [k \in 1..Len(pats[i].pattern) |-> TokenLower(pats[i].pattern[k])])

\* C14: deduplicate_patterns returns the sub-list of first occurrences of
\* each (label, token texts) key, in order, and applying it to its own result
\* changes nothing.
C14_DedupIdempotent ==
    /\ filter_calls >= 1 =>
          filter_output = [k \in 1..Len(FirstOccurrences(filter_input)) |->
                              filter_input[FirstOccurrences(filter_input)[k]]]
    /\ filter_calls >= 2 => filter_output = filter_prev

C14_Witness ==
    /\ filter_calls = 2
    /\ Len(filter_output) >= 2
    /\ Len(filter_output) < Len(filter_input)
    /\ filter_output = filter_prev

(***************************************************************************)
(* Properties of the pattern set and the phonetic classifier               *)
(***************************************************************************)
\* C15: for a dialogue item is_phonetic is true exactly when some
\* whitespace-separated token of the lowercased utterance, stripped of every
\* character that is neither alphanumeric nor ' nor -, is in the loaded
\* pattern set; "he said heben to me" with {heben} is true and "he said
\* hello to me" is false.
C15_IsPhonetic ==
    (classify_calls > 0 /\ sample_item.kind = "Gemini") =>
        /\ is_phonetized <=>
              \E k \in 1..Len(Split(Lower(sample_item.utterance))) :
                  SelectSeq(Split(Lower(sample_item.utterance))[k],
                            LAMBDA c : c \in AsciiAlnum \cup {"'", "-"})
                      \in phonetic_patterns
        /\ phonetic_patterns = { <<"h", "e", "b", "e", "n">> } =>
              /\ sample_item.utterance = HebenUtterance => is_phonetized
              /\ sample_item.utterance = HelloUtterance => ~is_phonetized

\* a token matches only once its punctuation is stripped
C15_Witness ==
    /\ classify_calls > 0
    /\ sample_item = GeminiDataItem(<<"A", "-", " ", "a", "!">>)
    /\ phonetic_patterns = { <<"a">> }
    /\ is_phonetized

\* a line json.loads accepts whose pattern has a first token with a text
WellFormedLine(line) ==
    /\ line.kind = "object"
    /\ line.has_pattern
    /\ line.pattern # <<>>
    /\ "lower" \in DOMAIN line.pattern[1]
    /\ line.pattern[1].lower # <<>>

\* C16: loading the pattern set skips malformed lines and keeps going: the
\* set holds the first-token text of every well-formed, non-empty pattern
\* line of the file, those after a malformed line included (stated with no
\* exception word configured).
C16_MalformedLinesSkipped ==
    (load_outcome = "returned" /\ patterns_file.status = "ok" /\ exceptions = {}) =>
        \A i \in 1..Len(patterns_file.lines) :
            WellFormedLine(patterns_file.lines[i]) =>
                patterns_file.lines[i].pattern[1].lower \in phonetic_patterns

\* C18: a missing or unreadable pattern file is fatal for the load: the
\* error reaches the caller instead of the load completing with an empty set.
C18_SourceErrorPropagates ==
    (load_outcome # "none" /\ patterns_file.status \in {"missing", "unreadable"}) =>
        load_outcome = "raised"

(***************************************************************************)
(* Properties of the corpus loaders                                        *)
(***************************************************************************)
\* C17: corpus loading recovers from every malformed record: a line that
\* cannot be parsed or lacks required fields is skipped and every
\* well-formed record before and after it is yielded, in file order.
C17_MalformedRecordsSkipped ==
    (loader_class # "none" /\ corpus_outcome # "none" /\ corpus_file.status = "ok") =>
        /\ corpus_outcome = "returned"
        /\ yielded = SelectSeq([i \in 1..Len(corpus_file.lines) |-> i],
                               LAMBDA i : /\ corpus_file.lines[i].json = "object"
                                          /\ Validates(loader_class, corpus_file.lines[i]))

(***************************************************************************)
(* Properties of mixed mode and of the annotation-ready output             *)
(***************************************************************************)
\* C19: producing annotation-ready records succeeds for every sampled item:
\* save_balanced_data writes one record per item, in order, each with the
\* item's text and the source "gb_data" (literary) or "gemini_data"
\* (dialogue).
C19_OneRecordPerItem ==
    save_outcome # "none" =>
        /\ save_outcome = "returned"
        /\ Len(written) = Len(sampled_gb \o sampled_gemini)
        /\ \A i \in 1..Len(written) :
              LET it == (sampled_gb \o sampled_gemini)[i]
              IN IF it.kind = "GB"
                 THEN written[i].source = "gb_data" /\ written[i].text = it.sample
                 ELSE written[i].source = "gemini_data" /\ written[i].text = it.utterance

\* C20: in mixed mode every literary item is in the non-dialogue stratum and
\* every dialogue item in the dialogue stratum whatever its text, and the
\* two draws use the quotas target_size - floor(target_size * ratio) and
\* floor(target_size * ratio).
C20_ForcedStrata ==
    mixed_outcome = "returned" =>
        /\ gb_stratum = [i \in 1..Len(gb_data) |-> i]
        /\ gemini_stratum = [i \in 1..Len(gemini_data) |-> i]
        /\ gb_sizes = [dialogue |-> 0,
                       non_dialogue |-> mixed_size
                                          - (mixed_size * mixed_ratio[1]) \div mixed_ratio[2]]
        /\ gemini_sizes = [dialogue |-> (mixed_size * mixed_ratio[1]) \div mixed_ratio[2],
                           non_dialogue |-> 0]

\* C21: the words of the exceptions file are excluded from the pattern set:
\* after construction no member of the pattern set equals the lowercased
\* text of a line of the exceptions file that is neither blank nor a comment,
\* the exceptions being loaded before the patterns are.
C21_ExceptionsExcluded ==
    (load_outcome = "returned" /\ exceptions_file.status = "ok") =>
        \A i \in 1..Len(exceptions_file.lines) :
            LET word == Strip(exceptions_file.lines[i])
            IN (word # <<>> /\ word[1] # "#") =>
                  [k \in 1..Len(word) |-> LowerChar(word[k])] \notin phonetic_patterns

\* a pattern of the file is an exception and is left out, another is kept
C21_Witness ==
    /\ load_outcome = "returned"
    /\ exceptions_file = ExceptionsFile("ok", << <<"A">> >>)
    /\ patterns_file = PatternFile("ok", <<WordLine(<<"a">>), WordLine(<<"A">>)>>)
    /\ phonetic_patterns = { <<"A">> }

\* C22: sampling is without replacement: in every result of sample no
\* position of the item list occurs more than once, and every element of the
\* result is an element of the item list.
C22_WithoutReplacement ==
    outcome = "returned" =>
        /\ \A i \in 1..Len(result) : result[i] \in 1..Len(data)
        /\ \A i \in 1..Len(result) : \A j \in 1..Len(result) :
              i # j => result[i] # result[j]

\* two equal items of the list are both drawn, from different positions
C22_Witness ==
    /\ outcome = "returned"
    /\ Len(result) >= 3
    /\ data[result[1]] = data[result[2]]
    /\ result[1] # result[2]

\* C23: the seen set is scoped to one extraction call: a second
\* generate_from_gb_data call on the same input returns what the first
\* returned (stated here of the patterns returned and their number, the
\* order within one word's variants left aside).
C23_RepeatedCallsAgree ==
    gen_calls = 2 =>
        /\ Len(patterns) = Len(prev_patterns)
        /\ { patterns[i] : i \in 1..Len(patterns) }
             = { prev_patterns[i] : i \in 1..Len(prev_patterns) }

\* C26: the upper length bound is inclusive: no accepted variant is longer
\* than max_pattern_length, none is the empty string, and a candidate
\* variant of exactly max_pattern_length characters that passes the other
\* filters is accepted.
C26_InclusiveUpperBound ==
    /\ \A v \in seen_patterns : v # <<>> /\ Len(v) <= settings.max_pattern_length
    /\ gen_calls > 0 =>
          \A v \in CorpusVariants :
              ( /\ Len(v) = settings.max_pattern_length
                /\ Len(v) >= settings.min_pattern_length
                /\ settings.enable_stopword_filter => v \notin stopwords )
                  => v \in seen_patterns

\* a variant of the maximum length was accepted and a longer one refused
C26_Witness ==
    /\ gen_calls > 0
    /\ \E v \in seen_patterns : Len(v) = settings.max_pattern_length
    /\ \E v \in CorpusVariants :
          Len(v) > settings.max_pattern_length /\ v \notin seen_patterns

\* C24: classification is pure: a call of is_phonetic leaves the pattern set
\* and the exception set as they were, and what it returns for an item is
\* what it returns with fresh usage counters, whatever was classified before.
C24_ClassificationPure ==
    [][ classify_calls' = classify_calls + 1 =>
          /\ phonetic_patterns' = phonetic_patterns
          /\ exceptions' = exceptions
          /\ is_phonetized' =
                IsPhonetizedSample(sample_item', phonetic_patterns', <<>>).value ]_vars

\* an item without a pattern classified after one whose pattern was counted
C24_Witness ==
    /\ classify_calls = 2
    /\ DOMAIN pattern_usage # {}
    /\ sample_item = GeminiDataItem(<<"!">>)
    /\ ~is_phonetized

\* C25: every item the dialogue loader yields has an utterance that is
\* non-empty after trimming.
C25_UtteranceNonEmpty ==
    (loader_class = "Gemini" /\ corpus_outcome # "none") =>
        \A k \in 1..Len(yielded) :
            Strip(corpus_file.lines[yielded[k]].utterance) # <<>>

(***************************************************************************)
(* Properties of the workflow scripts                                      *)
(***************************************************************************)
\* C27: the annotation tool is started only after a successful health
\* check: an annotation process exists only when the check passed, and when
\* the check failed none is ever started and the run ends with exit code 1.
C27_HealthCheckGate ==
    /\ spawned > 0 => health = "passed"
    /\ health = "failed" => (spawned = 0 /\ wf_pc = "done" /\ exit_code = 1)
    /\ (health # "unchecked" /\ tool # "ok") => health = "failed"

\* the tool is missing: the check failed and the script is over with 1
C27_Witness ==
    /\ tool = "missing"
    /\ health = "failed"
    /\ wf_pc = "done"
    /\ exit_code = 1
    /\ spawned = 0

(***************************************************************************)
(* Properties of the balance statistics                                    *)
(***************************************************************************)
\* C28: get_balance_statistics reports complementary counts and ratios: for
\* every item list, the empty one included, phonetized + non_phonetized =
\* total, and each reported ratio equals its own count divided by total,
\* taken as 0 when total is 0.
C28_ComplementaryStatistics ==
    stats_outcome = "returned" =>
        /\ stats.total = Len(stats_data)
        /\ stats.phonetized + stats.non_phonetized = stats.total
        /\ IF stats.total = 0
           THEN stats.phonetized_ratio[1] = 0 /\ stats.non_phonetized_ratio[1] = 0
           ELSE /\ stats.phonetized_ratio[1] * stats.total
                       = stats.phonetized * stats.phonetized_ratio[2]
                /\ stats.non_phonetized_ratio[1] * stats.total
                       = stats.non_phonetized * stats.non_phonetized_ratio[2]

(***************************************************************************)
(* Properties of the sample sizes of both sampling methods                 *)
(***************************************************************************)
\* C29: in sample and in sample_phonetized_dialogue the two sample sizes add
\* up to the requested size as first calculated and after each of the two
\* checks, and a call that returns returns exactly that many items.
C29_QuotaSum ==
    calls > 0 =>
        /\ \A k \in 1..3 :
              quota_steps[k].dialogue + quota_steps[k].non_dialogue = sample_size
        /\ outcome = "returned" => Len(result) = sample_size

\* a call of sample_phonetized_dialogue, after another call on the same
\* sampler, in which a check changed the sizes and which returned items
C29_Witness ==
    /\ calls = 2
    /\ method = "sample_phonetized_dialogue"
    /\ prev_outcome = "returned"
    /\ outcome = "returned"
    /\ quota_steps[1] # quota_steps[3]
    /\ sample_size > 1
    /\ Len(result) = sample_size

(***************************************************************************)
(* Properties of the extractor and the classifier together                 *)
(***************************************************************************)
\* C30: for every pattern the extractor emitted and the sampler loaded into
\* its pattern set, a dialogue utterance that holds the pattern's first token
\* as one of its whitespace-separated words is classified as phonetic, also
\* when the token holds characters other than letters, digits, ' and -.
C30_ExtractorMatcherAgree ==
    (/\ classify_calls > 0
     /\ \E k \in 1..Len(patterns) :
           /\ patterns[k].pattern # <<>>
           /\ TokenLower(patterns[k].pattern[1]) \in phonetic_patterns
           /\ \E i \in 1..Len(Split(sample_item.utterance)) :
                 Split(sample_item.utterance)[i] = TokenLower(patterns[k].pattern[1]))
        => is_phonetized

====
